---------------------------- MODULE Spec2Model ----------------------------
(***************************************************************************)
(* A model of the arbitrage engine of solana-arbitrage-bot:                *)
(*   src/src/optimizer.py   (ArbitrageOptimizer)                           *)
(*   src/src/market_data.py (MarketDataProvider)                           *)
(*                                                                         *)
(* Monetary quantities are Python decimal.Decimal values.  A Decimal is    *)
(* modelled as a record [c |-> coefficient, e |-> exponent] denoting       *)
(* c * 10^e, kept normalised (no trailing zero in c; zero is [0, 0]), and  *)
(* every arithmetic operation computes the exact result and rounds it to   *)
(* DecimalPrec significant digits, half to even, as the default decimal    *)
(* context does.  The context's precision is 28; the model keeps the       *)
(* rounding and scales the precision down to DecimalPrec so that every     *)
(* intermediate value fits the integers of the model checker.              *)
(***************************************************************************)
EXTENDS Integers, Sequences, FiniteSets, TLC

(***************************************************************************)
(* decimal.Decimal arithmetic                                              *)
(***************************************************************************)

\* significant digits kept by an arithmetic operation (getcontext().prec)
DecimalPrec == 6

RECURSIVE Pow10(_)
Pow10(n) == IF n <= 0 THEN 1 ELSE 10 * Pow10(n - 1)

\* number of decimal digits of a natural number (0 has none)
RECURSIVE Digits(_)
Digits(n) == IF n = 0 THEN 0 ELSE 1 + Digits(n \div 10)

Abs(n) == IF n < 0 THEN -n ELSE n

Sgn(n) == IF n < 0 THEN -1 ELSE IF n = 0 THEN 0 ELSE 1

\* the normal form of c * 10^e
RECURSIVE DNorm(_, _)
DNorm(c, e) ==
    IF c = 0 THEN [c |-> 0, e |-> 0]
    ELSE IF c % 10 = 0 THEN DNorm(c \div 10, e + 1)
    ELSE [c |-> c, e |-> e]

\* Decimal('...') of a literal
Dec(c, e) == DNorm(c, e)

DZero == Dec(0, 0)

\* the natural number m * 10^e, with a nonzero fraction below it when sticky,
\* rounded half-even to DecimalPrec digits and given sign s
DRound(s, m, e, sticky) ==
    LET d == Digits(m) - DecimalPrec
    IN  IF d <= 0 THEN DNorm(s * m, e)
        ELSE LET q    == m \div Pow10(d)
                 r    == m % Pow10(d)
                 half == 5 * Pow10(d - 1)
                 up   == \/ r > half
                         \/ r = half /\ sticky
                         \/ r = half /\ q % 2 = 1
             IN  DNorm(s * (IF up THEN q + 1 ELSE q), e + d)

\* position of the most significant digit (the adjusted exponent + 1)
DTop(x) == Digits(Abs(x.c)) + x.e

DNeg(x) == [c |-> -x.c, e |-> x.e]

\* exact comparison, as Decimal.__lt__ : x < y
DLtPos(x, y) ==
    \* both strictly positive
    IF DTop(x) # DTop(y) THEN DTop(x) < DTop(y)
    ELSE x.c * Pow10(DecimalPrec - Digits(x.c))
            < y.c * Pow10(DecimalPrec - Digits(y.c))

DLt(x, y) ==
    IF x = y THEN FALSE
    ELSE IF Sgn(x.c) # Sgn(y.c) THEN Sgn(x.c) < Sgn(y.c)
    ELSE IF x.c > 0 THEN DLtPos(x, y)
    ELSE DLtPos(DNeg(y), DNeg(x))

DGt(x, y) == DLt(y, x)
DLe(x, y) == ~DLt(y, x)
DGe(x, y) == ~DLt(x, y)

\* builtin min / max on Decimals (the first argument on equality)
DMin(x, y) == IF DLt(y, x) THEN y ELSE x
DMax(x, y) == IF DGt(y, x) THEN y ELSE x

\* x + y for |x| the operand with the higher leading digit, both nonzero:
\* x is padded to DecimalPrec + 2 digits, y aligned under it
DAddOrdered(x, y) ==
    LET W     == DecimalPrec + 2
        pad   == W - Digits(Abs(x.c))
        xm    == Abs(x.c) * Pow10(pad)
        ex    == x.e - pad
        shift == y.e - ex
        ym    == IF shift >= 0 THEN Abs(y.c) * Pow10(shift)
                 ELSE IF -shift > 9 THEN 0
                 ELSE Abs(y.c) \div Pow10(-shift)
        sticky == IF shift >= 0 THEN FALSE
                  ELSE IF -shift > 9 THEN TRUE
                  ELSE Abs(y.c) % Pow10(-shift) # 0
    IN  IF Sgn(x.c) = Sgn(y.c)
        THEN DRound(Sgn(x.c), xm + ym, ex, sticky)
        ELSE IF sticky
             THEN DRound(Sgn(x.c), xm - ym - 1, ex, TRUE)
             ELSE DRound(Sgn(x.c) * Sgn(xm - ym), Abs(xm - ym), ex, FALSE)

\* Decimal.__add__
DAdd(x, y) ==
    IF x.c = 0 THEN y
    ELSE IF y.c = 0 THEN x
    ELSE IF DTop(x) >= DTop(y) THEN DAddOrdered(x, y)
    ELSE DAddOrdered(y, x)

\* Decimal.__sub__
DSub(x, y) == DAdd(x, DNeg(y))

\* Decimal.__mul__ : the exact product is formed in two limbs of 8 digits
DMul(x, y) ==
    LET a  == Abs(x.c)
        b  == Abs(y.c)
        s  == Sgn(x.c) * Sgn(y.c)
        K  == 10000
        a1 == a \div K
        a0 == a % K
        b1 == b \div K
        b0 == b % K
        cross == a1 * b0 + a0 * b1
        low   == a0 * b0 + (cross % K) * K
        lo    == low % (K * K)
        hi    == a1 * b1 + cross \div K + low \div (K * K)
        e     == x.e + y.e
    IN  IF s = 0 THEN DZero
        ELSE IF hi = 0 THEN DRound(s, lo, e, FALSE)
        ELSE LET d    == 8 + Digits(hi) - DecimalPrec
                 q    == hi * Pow10(8 - d) + lo \div Pow10(d)
                 r    == lo % Pow10(d)
                 half == 5 * Pow10(d - 1)
                 up   == r > half \/ (r = half /\ q % 2 = 1)
             IN  DNorm(s * (IF up THEN q + 1 ELSE q), e + d)

\* long division: digits of a / b until DecimalPrec + 1 are known or it is exact
RECURSIVE DivDigits(_, _, _, _)
DivDigits(q, r, b, e) ==
    IF r = 0 \/ Digits(q) > DecimalPrec THEN [q |-> q, r |-> r, e |-> e]
    ELSE DivDigits(q * 10 + (r * 10) \div b, (r * 10) % b, b, e - 1)

\* Decimal.__truediv__ for a nonzero divisor
DDiv(x, y) ==
    LET a == Abs(x.c)
        b == Abs(y.c)
        s == Sgn(x.c) * Sgn(y.c)
        l == DivDigits(a \div b, a % b, b, x.e - y.e)
    IN  IF s = 0 THEN DZero ELSE DRound(s, l.q, l.e, l.r # 0)

\* Decimal.__truediv__ raises DivisionByZero (x / 0) or InvalidOperation (0 / 0)
DDivRaises(x, y) == y.c = 0

(***************************************************************************)
(* ArbitrageOptimizer: configuration set by __init__                       *)
(***************************************************************************)

\* self.min_profit_threshold = Decimal('10.0')
min_profit_threshold == Dec(100, -1)

\* self.max_slippage = Decimal('0.02')
max_slippage == Dec(2, -2)

\* self.gas_price_estimate = Decimal('0.01')
gas_price_estimate == Dec(1, -2)

\* the slice bound of profitable[:10]
TopRoutes == 10

(***************************************************************************)
(* ArbitrageOptimizer._filter_profitable_routes                            *)
(* A route is a record with a profit (the sort key) and the rest of the    *)
(* dict's entries, which the filter neither reads nor changes.             *)
(***************************************************************************)

\* profitable = [r for r in routes if r['profit'] > self.min_profit_threshold]
IsProfitable(r) == DGt(r.profit, min_profit_threshold)

\* a sort that is not stable: r goes before the elements of equal key
RECURSIVE InsertByProfitUnstable(_, _)
InsertByProfitUnstable(sorted, r) ==
    IF sorted = <<>> THEN <<r>>
    ELSE IF DGt(Head(sorted).profit, r.profit)
         THEN <<Head(sorted)>> \o InsertByProfitUnstable(Tail(sorted), r)
         ELSE <<r>> \o sorted

\* one step of list.sort(key=profit, reverse=True): r goes behind every
\* element whose key is not smaller (the sort is stable, also when reversed)
RECURSIVE InsertByProfit(_, _)
InsertByProfit(sorted, r) ==
    IF sorted = <<>> THEN <<r>>
    ELSE IF DGe(Head(sorted).profit, r.profit)
         THEN <<Head(sorted)>> \o InsertByProfit(Tail(sorted), r)
         ELSE <<r>> \o sorted

RECURSIVE SortByProfitDesc(_)
SortByProfitDesc(rs) ==
    IF rs = <<>> THEN <<>>
    ELSE InsertByProfit(SortByProfitDesc(SubSeq(rs, 1, Len(rs) - 1)), rs[Len(rs)])

\* the slice left out
TruncateNothing(rs) == rs

\* profitable[:10]
Truncate(rs) == SubSeq(rs, 1, IF Len(rs) < TopRoutes THEN Len(rs) ELSE TopRoutes)

FilterProfitableRoutes(rs) == Truncate(SortByProfitDesc(SelectSeq(rs, IsProfitable)))

(***************************************************************************)
(* PoolInfo and ArbitrageOptimizer._find_triangular_arbitrage: the pools   *)
(* grouped by token                                                        *)
(***************************************************************************)

\* PoolInfo(dex, token_a, token_b, reserve_a, reserve_b, fee, liquidity)
PoolInfo(dex, ta, tb, ra, rb, fee, liq) ==
    [dex |-> dex, token_a |-> ta, token_b |-> tb,
     reserve_a |-> ra, reserve_b |-> rb, fee |-> fee, liquidity |-> liq]

\* token_pools[token]: the pools appended for this token, in pool order
\* (a pool whose two tokens are the same is appended twice)
RECURSIVE PoolsOfToken(_, _)
PoolsOfToken(ps, t) ==
    IF ps = <<>> THEN <<>>
    ELSE (IF Head(ps).token_a = t THEN <<Head(ps)>> ELSE <<>>)
         \o (IF Head(ps).token_b = t THEN <<Head(ps)>> ELSE <<>>)
         \o PoolsOfToken(Tail(ps), t)

\* token_pools = {} ... token_pools[token].append(pool)
GroupByToken(ps) ==
    [t \in {ps[i].token_a : i \in 1..Len(ps)} \cup {ps[i].token_b : i \in 1..Len(ps)}
        |-> PoolsOfToken(ps, t)]

\* token_pools.get(token, [])
GetPools(token_pools, t) ==
    IF t \in DOMAIN token_pools THEN token_pools[t] ELSE <<>>

(***************************************************************************)
(* ArbitrageOptimizer._path_exists and _find_triangular_paths              *)
(***************************************************************************)

\* a check that always succeeds
PathExistsAlways(token_a, token_b, token_pools) == TRUE

\* a check that only accepts a pool listing the two tokens in this order
PathExistsOneWay(token_a, token_b, token_pools) ==
    \E i \in 1..Len(GetPools(token_pools, token_a)) :
        /\ GetPools(token_pools, token_a)[i].token_a = token_a
        /\ GetPools(token_pools, token_a)[i].token_b = token_b

PathExists(token_a, token_b, token_pools) ==
    \E i \in 1..Len(GetPools(token_pools, token_a)) :
        LET pool == GetPools(token_pools, token_a)[i]
        IN  \/ pool.token_a = token_a /\ pool.token_b = token_b
            \/ pool.token_a = token_b /\ pool.token_b = token_a

\* the token_b of every pool listed for base_token
ConnectedTokensByTokenB(base_token, token_pools) ==
    {GetPools(token_pools, base_token)[i].token_b
       : i \in 1..Len(GetPools(token_pools, base_token))}

\* connected_tokens: the other token of every pool listed for base_token
ConnectedTokens(base_token, token_pools) ==
    {(IF GetPools(token_pools, base_token)[i].token_a = base_token
         THEN GetPools(token_pools, base_token)[i].token_b
         ELSE GetPools(token_pools, base_token)[i].token_a)
       : i \in 1..Len(GetPools(token_pools, base_token))}

\* the orders in which a set can be iterated
IterationOrders(S) ==
    {o \in [1..Cardinality(S) -> S] : \A i, j \in 1..Cardinality(S) : i # j => o[i] # o[j]}

\* the two nested loops over connected_tokens, from step k on; order is the
\* order in which the set is iterated
RECURSIVE TriangularLoop(_, _, _, _)
TriangularLoop(base_token, token_pools, order, k) ==
    LET n      == Len(order)
        token1 == order[(k \div n) + 1]
        token2 == order[(k % n) + 1]
    IN  IF k >= n * n THEN <<>>
        ELSE (IF /\ token1 # token2
                 /\ PathExists(token1, token2, token_pools)
                 /\ PathExists(token2, base_token, token_pools)
              THEN <<(<<base_token, token1, token2, base_token>>)>>
              ELSE <<>>)
             \o TriangularLoop(base_token, token_pools, order, k + 1)

FindTriangularPaths(base_token, token_pools, order) ==
    TriangularLoop(base_token, token_pools, order, 0)

(***************************************************************************)
(* ArbitrageOptimizer._calculate_swap_output                               *)
(***************************************************************************)

\* input_reserve and output_reserve for the direction of the trade
InputReserve(pool, a_to_b) == IF a_to_b THEN pool.reserve_a ELSE pool.reserve_b

OutputReserve(pool, a_to_b) == IF a_to_b THEN pool.reserve_b ELSE pool.reserve_a

\* a fee that is paid to the trader: input_amount * (Decimal('1') + pool.fee)
InputAmountWithRebate(input_amount, pool) ==
    DMul(input_amount, DAdd(Dec(1, 0), pool.fee))

\* input_amount_with_fee = input_amount * (Decimal('1') - pool.fee)
InputAmountWithFee(input_amount, pool) ==
    DMul(input_amount, DSub(Dec(1, 0), pool.fee))

\* denominator = input_reserve + input_amount_with_fee
SwapDenominator(input_amount, pool, a_to_b) ==
    DAdd(InputReserve(pool, a_to_b), InputAmountWithFee(input_amount, pool))

\* the division raises when the denominator is zero
CalculateSwapOutputRaises(input_amount, pool, a_to_b) ==
    DDivRaises(DZero, SwapDenominator(input_amount, pool, a_to_b))

\* return numerator / denominator
CalculateSwapOutput(input_amount, pool, a_to_b) ==
    DDiv(DMul(InputAmountWithFee(input_amount, pool), OutputReserve(pool, a_to_b)),
         SwapDenominator(input_amount, pool, a_to_b))

\* a swap that moves the reserves of the pool: the amount paid in is added to
\* the input reserve and the amount paid out taken from the output reserve
PoolAfterSwapInPlace(input_amount, pool, a_to_b) ==
    IF a_to_b
    THEN [pool EXCEPT !.reserve_a = DAdd(pool.reserve_a, input_amount),
                      !.reserve_b = DSub(pool.reserve_b,
                                         CalculateSwapOutput(input_amount, pool, a_to_b))]
    ELSE [pool EXCEPT !.reserve_b = DAdd(pool.reserve_b, input_amount),
                      !.reserve_a = DSub(pool.reserve_a,
                                         CalculateSwapOutput(input_amount, pool, a_to_b))]

\* the pool after _calculate_swap_output: the function reads reserve_a,
\* reserve_b and fee and assigns no attribute of the pool
PoolAfterSwap(input_amount, pool, a_to_b) == pool

(***************************************************************************)
(* ArbitrageOptimizer._find_best_pool                                      *)
(***************************************************************************)

\* the pool trades the two tokens, in either role
PoolMatches(pool, from_token, to_token) ==
    \/ pool.token_a = from_token /\ pool.token_b = to_token
    \/ pool.token_a = to_token /\ pool.token_b = from_token

\* rate = pool.reserve_b / pool.reserve_a if pool.token_a == from_token
\*        else pool.reserve_a / pool.reserve_b : the divisor
RateDivisor(pool, from_token) ==
    IF pool.token_a = from_token THEN pool.reserve_a ELSE pool.reserve_b

RateDividend(pool, from_token) ==
    IF pool.token_a = from_token THEN pool.reserve_b ELSE pool.reserve_a

ExchangeRate(pool, from_token) ==
    DDiv(RateDividend(pool, from_token), RateDivisor(pool, from_token))

\* the loop visits every pool, so the rate of every matching pool is computed:
\* the call raises when one of them has a zero divisor
FindBestPoolRaises(from_token, to_token, ps) ==
    \E i \in 1..Len(ps) :
        /\ PoolMatches(ps[i], from_token, to_token)
        /\ DDivRaises(RateDividend(ps[i], from_token), RateDivisor(ps[i], from_token))

RECURSIVE BestPoolLoop(_, _, _, _, _, _)

\* if rate > best_rate: best_rate = rate; best_pool = pool
BestPoolKeep(from_token, to_token, ps, i, best, best_rate, rate) ==
    IF DGt(rate, best_rate)
    THEN BestPoolLoop(from_token, to_token, ps, i + 1, i, rate)
    ELSE BestPoolLoop(from_token, to_token, ps, i + 1, best, best_rate)

\* the loop from pool i on; best is the index of best_pool (0 for None)
BestPoolLoop(from_token, to_token, ps, i, best, best_rate) ==
    IF i > Len(ps) THEN best
    ELSE IF PoolMatches(ps[i], from_token, to_token)
         THEN BestPoolKeep(from_token, to_token, ps, i, best, best_rate,
                           ExchangeRate(ps[i], from_token))
         ELSE BestPoolLoop(from_token, to_token, ps, i + 1, best, best_rate)

\* the index in ps of the pool returned, 0 when None is returned
FindBestPool(from_token, to_token, ps) ==
    BestPoolLoop(from_token, to_token, ps, 1, 0, DZero)

(***************************************************************************)
(* ArbitrageOptimizer._analyze_triangular_profit                           *)
(***************************************************************************)

\* test_amounts
test_amounts == <<Dec(100, 0), Dec(1000, 0), Dec(10000, 0), Dec(100000, 0)>>

RECURSIVE WalkPath(_, _, _, _, _)

\* one hop through best_pool (an index of ps, 0 for None): break with nothing
\* held when there is no pool, else swap, pay the gas and go on
WalkHop(path, ps, i, current_amount, gas_cost, best_pool) ==
    IF best_pool = 0
    THEN [current_amount |-> DZero, gas_cost |-> gas_cost, raised |-> FALSE]
    ELSE IF CalculateSwapOutputRaises(current_amount, ps[best_pool],
                                      path[i] = ps[best_pool].token_a)
    THEN [current_amount |-> current_amount, gas_cost |-> gas_cost, raised |-> TRUE]
    ELSE WalkPath(path, ps, i + 1,
                  CalculateSwapOutput(current_amount, ps[best_pool],
                                      path[i] = ps[best_pool].token_a),
                  DAdd(gas_cost, gas_price_estimate))

\* the trade simulated from hop i on: the amount held, the gas accumulated, and
\* whether _find_best_pool or _calculate_swap_output raised
WalkPath(path, ps, i, current_amount, gas_cost) ==
    IF i > Len(path) - 1
    THEN [current_amount |-> current_amount, gas_cost |-> gas_cost, raised |-> FALSE]
    ELSE IF FindBestPoolRaises(path[i], path[i + 1], ps)
    THEN [current_amount |-> current_amount, gas_cost |-> gas_cost, raised |-> TRUE]
    ELSE WalkHop(path, ps, i, current_amount, gas_cost,
                 FindBestPool(path[i], path[i + 1], ps))

RECURSIVE BestPoolCalls(_, _, _, _)

\* the call of _find_best_pool for hop i that returned best_pool, with the input
\* reserve the swap on the pool uses, and the calls of the hops that follow
BestPoolCall(path, ps, i, current_amount, best_pool) ==
    IF best_pool = 0
    THEN <<[from_token |-> path[i], to_token |-> path[i + 1], raised |-> FALSE,
            best_pool |-> 0, input_reserve |-> DZero]>>
    ELSE <<[from_token |-> path[i], to_token |-> path[i + 1], raised |-> FALSE,
            best_pool |-> best_pool,
            input_reserve |->
                InputReserve(ps[best_pool], path[i] = ps[best_pool].token_a)]>>
         \o (IF CalculateSwapOutputRaises(current_amount, ps[best_pool],
                                          path[i] = ps[best_pool].token_a)
             THEN <<>>
             ELSE BestPoolCalls(path, ps, i + 1,
                                CalculateSwapOutput(current_amount, ps[best_pool],
                                                    path[i] = ps[best_pool].token_a)))

\* the calls of _find_best_pool made while the trade of one amount is
\* simulated from hop i on, in order, up to the hop that breaks or raises
BestPoolCalls(path, ps, i, current_amount) ==
    IF i > Len(path) - 1 THEN <<>>
    ELSE IF FindBestPoolRaises(path[i], path[i + 1], ps)
    THEN <<[from_token |-> path[i], to_token |-> path[i + 1], raised |-> TRUE,
            best_pool |-> 0, input_reserve |-> DZero]>>
    ELSE BestPoolCall(path, ps, i, current_amount,
                      FindBestPool(path[i], path[i + 1], ps))

\* a net profit that forgets the gas
NetProfitWithoutGas(current_amount, amount, gas_cost) == DSub(current_amount, amount)

\* net_profit = current_amount - amount - gas_cost
NetProfit(current_amount, amount, gas_cost) ==
    DSub(DSub(current_amount, amount), gas_cost)

RECURSIVE SweepAmounts(_, _, _, _, _)

\* a sweep that keeps the first amount with a net profit above 0
SweepKeepFirst(path, ps, k, best_profit, best_amount, net_profit) ==
    IF DGt(net_profit, best_profit) /\ best_profit = DZero
    THEN SweepAmounts(path, ps, k + 1, net_profit, test_amounts[k])
    ELSE SweepAmounts(path, ps, k + 1, best_profit, best_amount)

\* if net_profit > best_profit: best_profit = net_profit; best_amount = amount
SweepKeepBest(path, ps, k, best_profit, best_amount, net_profit) ==
    IF DGt(net_profit, best_profit)
    THEN SweepAmounts(path, ps, k + 1, net_profit, test_amounts[k])
    ELSE SweepAmounts(path, ps, k + 1, best_profit, best_amount)

\* the body of the loop once the trade w of test_amounts[k] is simulated
SweepStep(path, ps, k, best_profit, best_amount, w) ==
    IF w.raised
    THEN [best_profit |-> best_profit, best_amount |-> best_amount, raised |-> TRUE]
    ELSE SweepKeepBest(path, ps, k, best_profit, best_amount,
                       NetProfit(w.current_amount, test_amounts[k], w.gas_cost))

\* the loop over test_amounts from the k-th amount on
SweepAmounts(path, ps, k, best_profit, best_amount) ==
    IF k > Len(test_amounts)
    THEN [best_profit |-> best_profit, best_amount |-> best_amount, raised |-> FALSE]
    ELSE SweepStep(path, ps, k, best_profit, best_amount,
                   WalkPath(path, ps, 1, test_amounts[k], DZero))

RECURSIVE PoolsAfterWalk(_, _, _, _)

\* the pools once hop i is traded through best_pool and the hops after it
PoolsAfterHop(path, ps, i, current_amount, best_pool) ==
    IF best_pool = 0 THEN ps
    ELSE IF CalculateSwapOutputRaises(current_amount, ps[best_pool],
                                      path[i] = ps[best_pool].token_a)
    THEN ps
    ELSE PoolsAfterWalk(path,
                        [ps EXCEPT ![best_pool] =
                            PoolAfterSwap(current_amount, ps[best_pool],
                                          path[i] = ps[best_pool].token_a)],
                        i + 1,
                        CalculateSwapOutput(current_amount, ps[best_pool],
                                            path[i] = ps[best_pool].token_a))

\* the pools once the trade of one amount is simulated from hop i on
PoolsAfterWalk(path, ps, i, current_amount) ==
    IF i > Len(path) - 1 THEN ps
    ELSE IF FindBestPoolRaises(path[i], path[i + 1], ps) THEN ps
    ELSE PoolsAfterHop(path, ps, i, current_amount,
                       FindBestPool(path[i], path[i + 1], ps))

\* the pools once the amounts of test_amounts are simulated from the k-th on
RECURSIVE PoolsAfterSweep(_, _, _)
PoolsAfterSweep(path, ps, k) ==
    IF k > Len(test_amounts) THEN ps
    ELSE PoolsAfterSweep(path, PoolsAfterWalk(path, ps, 1, test_amounts[k]), k + 1)

\* the pools once _analyze_triangular_profit has returned for the path
\* (_calculate_confidence only looks pools up)
PoolsAfterAnalysis(path, ps) == PoolsAfterSweep(path, ps, 1)

\* _calculate_confidence looks up the best pool of every hop of the path
CalculateConfidenceRaises(path, ps) ==
    \E i \in 1..(Len(path) - 1) : FindBestPoolRaises(path[i], path[i + 1], ps)

\* _calculate_confidence computes with floats; a float is modelled by the
\* Decimal of DecimalPrec digits nearest to it.  min_liquidity starts as
\* float('inf'): found tells whether a pool has replaced it.
RECURSIVE MinLiquidityLoop(_, _, _, _, _)

\* if pool: min_liquidity = min(min_liquidity, float(pool.liquidity))
MinLiquidityHop(path, ps, i, found, min_liquidity, best_pool) ==
    IF best_pool = 0
    THEN MinLiquidityLoop(path, ps, i + 1, found, min_liquidity)
    ELSE MinLiquidityLoop(path, ps, i + 1, TRUE,
                          IF found THEN DMin(min_liquidity, ps[best_pool].liquidity)
                          ELSE ps[best_pool].liquidity)

\* the loop over the hops of the path from hop i on
MinLiquidityLoop(path, ps, i, found, min_liquidity) ==
    IF i > Len(path) - 1 THEN [found |-> found, min_liquidity |-> min_liquidity]
    ELSE MinLiquidityHop(path, ps, i, found, min_liquidity,
                         FindBestPool(path[i], path[i + 1], ps))

\* liquidity_score = min(1.0, min_liquidity / 1000000)
LiquidityScore(m) ==
    IF m.found THEN DMin(Dec(1, 0), DDiv(m.min_liquidity, Dec(1, 6)))
    ELSE Dec(1, 0)

\* amount_score = max(0.1, 1.0 - (float(amount) / 1000000))
AmountScore(amount) ==
    DMax(Dec(1, -1), DSub(Dec(1, 0), DDiv(amount, Dec(1, 6))))

\* path_score = max(0.5, 1.0 - ((len(path) - 2) * 0.1))
PathScore(path) ==
    DMax(Dec(5, -1), DSub(Dec(1, 0), DMul(Dec(Len(path) - 2, 0), Dec(1, -1))))

\* return sum(confidence_factors) / len(confidence_factors)
CalculateConfidence(path, ps, amount) ==
    DDiv(DAdd(DAdd(DAdd(DZero,
                        LiquidityScore(MinLiquidityLoop(path, ps, 1, FALSE, DZero))),
                   AmountScore(amount)),
              PathScore(path)),
         Dec(3, 0))

\* (len(path) - 1) * self.gas_price_estimate
PathGasCost(path) == DMul(Dec(Len(path) - 1, 0), gas_price_estimate)

\* the dict returned after the sweep, or raised when an exception leaves the function
ProfitAnalysis(path, ps, sweep, confidence_raises, gas_cost) ==
    IF sweep.raised \/ confidence_raises
    THEN [raised |-> TRUE, optimal_amount |-> DZero, gross_profit |-> DZero,
          net_profit |-> DZero, gas_cost |-> DZero, confidence |-> DZero]
    ELSE [raised |-> FALSE,
          optimal_amount |-> sweep.best_amount,
          gross_profit |-> DAdd(sweep.best_profit, gas_cost),
          net_profit |-> sweep.best_profit,
          gas_cost |-> gas_cost,
          confidence |-> CalculateConfidence(path, ps, sweep.best_amount)]

\* best_profit = Decimal('0'); best_amount = Decimal('1000'); the sweep; the dict
AnalyzeTriangularProfit(path, ps) ==
    ProfitAnalysis(path, ps, SweepAmounts(path, ps, 1, DZero, Dec(1000, 0)),
                   CalculateConfidenceRaises(path, ps),
                   PathGasCost(path))

\* a route whose path does not return to the base token
TriangularRoutesOfOpenPath(path, analysis) ==
    IF ~analysis.raised /\ DGt(analysis.net_profit, min_profit_threshold)
    THEN <<[pair |-> <<path[1], "_TRIANGULAR">>, amount |-> analysis.optimal_amount,
            profit |-> analysis.net_profit, confidence |-> analysis.confidence,
            path |-> SubSeq(path, 1, Len(path) - 1),
            gas_estimate |-> analysis.gas_cost, type |-> "triangular"]>>
    ELSE <<>>

\* _find_triangular_arbitrage: the routes appended for one analysed path; the
\* pair f"{base_token}_TRIANGULAR" is modelled by the list of its two pieces
TriangularRoutesOf(path, analysis) ==
    IF ~analysis.raised /\ DGt(analysis.net_profit, min_profit_threshold)
    THEN <<[pair |-> <<path[1], "_TRIANGULAR">>, amount |-> analysis.optimal_amount,
            profit |-> analysis.net_profit, confidence |-> analysis.confidence,
            path |-> path,
            gas_estimate |-> analysis.gas_cost, type |-> "triangular"]>>
    ELSE <<>>

(***************************************************************************)
(* PriceData and ArbitrageOptimizer._convert_to_pools                      *)
(* A symbol is modelled by the list of its parts between '/' separators:   *)
(* "SOL/USDC" is <<"SOL", "USDC">>, "SOL" is <<"SOL">>.  market_data is    *)
(* the list of the dict's items (symbol, price_list) in iteration order.   *)
(***************************************************************************)

\* PriceData(symbol, price, volume_24h, liquidity, source, timestamp): the fields
\* the optimizer reads
PriceData(symbol, price, liquidity, source) ==
    [symbol |-> symbol, price |-> price, liquidity |-> liquidity, source |-> source]

\* reserve_a = total_liquidity - 2 * price
ReserveAByDifference(price_data) ==
    DSub(price_data.liquidity, DMul(Dec(2, 0), price_data.price))

\* reserve_a = total_liquidity / (2 * price)
ReserveA(price_data) ==
    DDiv(price_data.liquidity, DMul(Dec(2, 0), price_data.price))

\* reserve_b = total_liquidity / 2
ReserveB(price_data) == DDiv(price_data.liquidity, Dec(2, 0))

\* str.lower() on the venue names
Lower(source) ==
    CASE source = "Raydium" -> "raydium"
      [] source = "Orca"    -> "orca"
      [] source = "Jupiter" -> "jupiter"
      [] OTHER              -> source

\* the pool appended for one quote of a symbol of two parts
ConvertQuote(symbol, price_data) ==
    PoolInfo(Lower(price_data.source), symbol[1], symbol[2],
             ReserveA(price_data), ReserveB(price_data), Dec(3, -3),
             price_data.liquidity)

\* the quotes of all items in the order the two nested loops visit them,
\* each with the key of its item
RECURSIVE FlattenMarketData(_)
FlattenMarketData(md) ==
    IF md = <<>> THEN <<>>
    ELSE [i \in 1..Len(Head(md).price_list) |->
             [symbol |-> Head(md).symbol, price_data |-> Head(md).price_list[i]]]
         \o FlattenMarketData(Tail(md))

\* token_a, token_b = symbol.split('/') raises ValueError unless there are two
\* parts; the division raises when 2 * price is zero
ConvertQuoteRaises(symbol, price_data) ==
    \/ Len(symbol) # 2
    \/ DDivRaises(price_data.liquidity, DMul(Dec(2, 0), price_data.price))

\* the loop over the flattened quotes from the k-th on
RECURSIVE ConvertLoop(_, _, _)
ConvertLoop(quotes, k, ps) ==
    IF k > Len(quotes) THEN [raised |-> FALSE, pools |-> ps]
    ELSE IF Len(quotes[k].symbol) < 2          \* '/' not in symbol
    THEN ConvertLoop(quotes, k + 1, ps)
    ELSE IF ConvertQuoteRaises(quotes[k].symbol, quotes[k].price_data)
    THEN [raised |-> TRUE, pools |-> <<>>]
    ELSE ConvertLoop(quotes, k + 1,
                     Append(ps, ConvertQuote(quotes[k].symbol, quotes[k].price_data)))

\* the list returned, or raised when an exception leaves the function
ConvertToPools(md) == ConvertLoop(FlattenMarketData(md), 1, <<>>)

(***************************************************************************)
(* ArbitrageOptimizer._calculate_optimal_direct_amount and                 *)
(* _find_direct_arbitrage                                                  *)
(***************************************************************************)

\* liquidity / (4 * price): a quarter of the liquidity, in units of the asset
MaxAmount(price_data) ==
    DDiv(price_data.liquidity, DMul(Dec(4, 0), price_data.price))

\* the larger of the two limits instead of the smaller
OptimalDirectAmountOfLargerLimit(low_price_data, high_price_data) ==
    DMax(DMax(MaxAmount(low_price_data), MaxAmount(high_price_data)), Dec(100, 0))

\* return max(min(max_amount_low, max_amount_high), Decimal('100'))
CalculateOptimalDirectAmount(low_price_data, high_price_data) ==
    DMax(DMin(MaxAmount(low_price_data), MaxAmount(high_price_data)), Dec(100, 0))

CalculateOptimalDirectAmountRaises(low_price_data, high_price_data) ==
    \/ DDivRaises(low_price_data.liquidity, DMul(Dec(4, 0), low_price_data.price))
    \/ DDivRaises(high_price_data.liquidity, DMul(Dec(4, 0), high_price_data.price))

\* one step of sorted(price_list, key=lambda x: x.price): the sort is stable
RECURSIVE InsertByPrice(_, _)
InsertByPrice(sorted, q) ==
    IF sorted = <<>> THEN <<q>>
    ELSE IF DLe(Head(sorted).price, q.price)
         THEN <<Head(sorted)>> \o InsertByPrice(Tail(sorted), q)
         ELSE <<q>> \o sorted

RECURSIVE SortByPrice(_)
SortByPrice(qs) ==
    IF qs = <<>> THEN <<>>
    ELSE InsertByPrice(SortByPrice(SubSeq(qs, 1, Len(qs) - 1)), qs[Len(qs)])

\* price_diff = highest.price - lowest.price
PriceDiff(lowest, highest) == DSub(highest.price, lowest.price)

\* percentage_diff = (price_diff / lowest.price) * 100
PercentageDiff(lowest, highest) ==
    DMul(DDiv(PriceDiff(lowest, highest), lowest.price), Dec(100, 0))

\* the cost of one transaction instead of two
DirectGasCostOfOneHop == gas_price_estimate

\* gas_cost = 2 * self.gas_price_estimate
DirectGasCost == DMul(Dec(2, 0), gas_price_estimate)

\* a confidence without the cap: percentage_diff / 10
DirectConfidenceUncapped(lowest, highest) ==
    DDiv(PercentageDiff(lowest, highest), Dec(10, 0))

\* 'confidence': min(0.95, percentage_diff / 10)
DirectConfidence(lowest, highest) ==
    DMin(Dec(95, -2), DDiv(PercentageDiff(lowest, highest), Dec(10, 0)))

RECURSIVE DirectLoop(_, _, _, _)

\* net_profit = gross_profit - gas_cost; the route is appended when it is above
\* the threshold
DirectAppend(md, k, calls, routes, lowest, highest, optimal_amount, net_profit) ==
    IF DGt(net_profit, min_profit_threshold)
    THEN DirectLoop(md, k + 1, calls,
                    Append(routes,
                           [pair |-> md[k].symbol, amount |-> optimal_amount,
                            profit |-> net_profit,
                            confidence |-> DirectConfidence(lowest, highest),
                            path |-> <<lowest.source, highest.source>>,
                            gas_estimate |-> DirectGasCost, type |-> "direct"]))
    ELSE DirectLoop(md, k + 1, calls, routes)

\* if optimal_amount > 0: gross_profit = optimal_amount * price_diff ...
DirectProfit(md, k, calls, routes, lowest, highest, optimal_amount) ==
    IF DGt(optimal_amount, DZero)
    THEN DirectAppend(md, k, calls, routes, lowest, highest, optimal_amount,
                      DSub(DMul(optimal_amount, PriceDiff(lowest, highest)),
                           DirectGasCost))
    ELSE DirectLoop(md, k + 1, calls, routes)

\* the body of the loop for a symbol of two quotes or more, lowest and highest
\* being the ends of its sorted list; calls records every call of
\* _calculate_optimal_direct_amount and what it returned
DirectSymbol(md, k, calls, routes, lowest, highest) ==
    IF DDivRaises(PriceDiff(lowest, highest), lowest.price)
    THEN [raised |-> TRUE, calls |-> calls, routes |-> <<>>]
    ELSE IF ~DGt(PercentageDiff(lowest, highest), Dec(5, -1))
    THEN DirectLoop(md, k + 1, calls, routes)
    ELSE IF CalculateOptimalDirectAmountRaises(lowest, highest)
    THEN [raised |-> TRUE, calls |-> calls, routes |-> <<>>]
    ELSE DirectProfit(md, k,
                      Append(calls,
                             [low |-> lowest, high |-> highest,
                              amount |-> CalculateOptimalDirectAmount(lowest, highest)]),
                      routes, lowest, highest,
                      CalculateOptimalDirectAmount(lowest, highest))

\* lowest = sorted_prices[0]; highest = sorted_prices[-1]
DirectSorted(md, k, calls, routes, sorted_prices) ==
    DirectSymbol(md, k, calls, routes,
                 sorted_prices[1], sorted_prices[Len(sorted_prices)])

\* the loop over market_data.items() from the k-th item on
DirectLoop(md, k, calls, routes) ==
    IF k > Len(md) THEN [raised |-> FALSE, calls |-> calls, routes |-> routes]
    ELSE IF Len(md[k].price_list) < 2
    THEN DirectLoop(md, k + 1, calls, routes)
    ELSE DirectSorted(md, k, calls, routes, SortByPrice(md[k].price_list))

\* the routes returned (and the calls made), or raised when an exception leaves
\* the function
FindDirectArbitrage(md) == DirectLoop(md, 1, <<>>, <<>>)

(***************************************************************************)
(* ArbitrageOptimizer._find_triangular_arbitrage and find_profitable_routes*)
(* order lists the tokens in the order in which this process iterates a    *)
(* set of them: the order of a set of strings follows their hashes, which  *)
(* are fixed when the interpreter starts.                                  *)
(***************************************************************************)

\* base_tokens
base_tokens == <<"SOL", "USDC", "USDT">>

\* the order in which the set S is iterated
SetOrder(order, S) == SelectSeq(order, LAMBDA t : t \in S)

RECURSIVE BaseTokensLoop(_, _, _, _, _)

RECURSIVE AnalyzePaths(_, _, _, _, _, _, _)

\* the body of the loop over the paths once the path is analysed: an exception
\* of the analysis leaves _find_triangular_arbitrage; the next path is analysed
\* on the pools as this analysis left them
AnalyzedPath(ps, token_pools, order, b, paths, j, routes, analysis) ==
    IF analysis.raised THEN [raised |-> TRUE, routes |-> <<>>, pools |-> ps]
    ELSE AnalyzePaths(PoolsAfterAnalysis(paths[j], ps), token_pools, order, b,
                      paths, j + 1,
                      routes \o TriangularRoutesOf(paths[j], analysis))

\* for path in triangular_paths: from the j-th path on
AnalyzePaths(ps, token_pools, order, b, paths, j, routes) ==
    IF j > Len(paths) THEN BaseTokensLoop(ps, token_pools, order, b + 1, routes)
    ELSE AnalyzedPath(ps, token_pools, order, b, paths, j, routes,
                      AnalyzeTriangularProfit(paths[j], ps))

\* for base_token in base_tokens: from the b-th base token on
BaseTokensLoop(ps, token_pools, order, b, routes) ==
    IF b > Len(base_tokens) THEN [raised |-> FALSE, routes |-> routes, pools |-> ps]
    ELSE IF base_tokens[b] \notin DOMAIN token_pools
    THEN BaseTokensLoop(ps, token_pools, order, b + 1, routes)
    ELSE AnalyzePaths(ps, token_pools, order, b,
                      FindTriangularPaths(
                          base_tokens[b], token_pools,
                          SetOrder(order, ConnectedTokens(base_tokens[b], token_pools))),
                      1, routes)

\* the routes returned, or raised when an exception leaves the function, and
\* the pools as the function left them
FindTriangularArbitrage(ps, order) ==
    BaseTokensLoop(ps, GroupByToken(ps), order, 1, <<>>)

\* a list that outlives the call: the candidates of the call before are still in it
ProfitableRoutesKept(previous) == previous

\* profitable_routes = []
ProfitableRoutesStart(previous) == <<>>

\* profitable_routes.extend(direct_routes); the filter; return filtered_routes
RoutesAfterDirect(start, triangular, direct) ==
    IF direct.raised
    THEN [raised |-> TRUE, candidates |-> <<>>, routes |-> <<>>, pools |-> <<>>]
    ELSE [raised |-> FALSE,
          candidates |-> start \o triangular.routes \o direct.routes,
          routes |-> FilterProfitableRoutes(
                         start \o triangular.routes \o direct.routes),
          pools |-> triangular.pools]

\* profitable_routes.extend(triangular_routes); _find_direct_arbitrage
RoutesAfterTriangular(md, start, triangular) ==
    IF triangular.raised
    THEN [raised |-> TRUE, candidates |-> <<>>, routes |-> <<>>, pools |-> <<>>]
    ELSE RoutesAfterDirect(start, triangular, FindDirectArbitrage(md))

\* _find_triangular_arbitrage(pools)
RoutesAfterConvert(md, order, start, converted) ==
    IF converted.raised
    THEN [raised |-> TRUE, candidates |-> <<>>, routes |-> <<>>, pools |-> <<>>]
    ELSE RoutesAfterTriangular(md, start,
                               FindTriangularArbitrage(converted.pools, order))

\* find_profitable_routes(market_data): the list returned (with the candidate
\* list it was filtered from and the pools as the call left them), or raised
\* when an exception leaves the function; previous is the candidate list of
\* the call before
FindProfitableRoutes(md, order, previous) ==
    RoutesAfterConvert(md, order, ProfitableRoutesStart(previous), ConvertToPools(md))

\* a price_list after sorted(price_list, key=...): sorted builds a new list
\* and leaves its argument as it was
PriceListAfterSorted(price_list) == price_list

\* the mapping after find_profitable_routes: _convert_to_pools reads the
\* quotes, _find_direct_arbitrage passes the lists of two quotes or more to
\* sorted, and nothing is assigned to the mapping, to a list or to a quote
MarketDataAfterScan(md) ==
    [k \in 1..Len(md) |->
        [symbol |-> md[k].symbol,
         price_list |-> IF Len(md[k].price_list) < 2 THEN md[k].price_list
                        ELSE PriceListAfterSorted(md[k].price_list)]]

(***************************************************************************)
(* MarketDataProvider: the venue fetches and get_all_prices                *)
(* The dict a fetch returns is modelled by the list of its values in       *)
(* iteration order; the result of a task is that list, or the exception    *)
(* the task raised.                                                        *)
(***************************************************************************)

\* what a fetch coroutine hands to gather
Returned(prices) == [kind |-> "dict", prices |-> prices]

Raised == [kind |-> "exception", prices |-> <<>>]

\* the index in a dict of the item of a symbol, 0 when it has none
ItemIndex(md, symbol) ==
    IF \E k \in 1..Len(md) : md[k].symbol = symbol
    THEN CHOOSE k \in 1..Len(md) : md[k].symbol = symbol
    ELSE 0

\* prices[symbol] = PriceData(...): a key assigned again keeps its place in
\* the dict (k is the index of the symbol's item, 0 when it has none)
SetPrice(prices, price_data, k) ==
    IF k = 0 THEN Append(prices, price_data)
    ELSE [prices EXCEPT ![k] = price_data]

\* for pool in data.get('official', [])[:10]: from the i-th pool on, each with
\* the placeholder price Decimal('1.0') and liquidity Decimal('5000000')
RECURSIVE RaydiumLoop(_, _, _)
RaydiumLoop(official, i, prices) ==
    IF i > Len(official) \/ i > 10 THEN prices
    ELSE RaydiumLoop(official, i + 1,
                     SetPrice(prices,
                              PriceData(official[i], Dec(10, -1), Dec(5000000, 0),
                                        "Raydium"),
                              ItemIndex(prices, official[i])))

\* fetch_raydium_prices: one PriceData per symbol of the first ten listed pools
RaydiumPrices(official) == RaydiumLoop(official, 1, <<>>)

\* fetch_orca_prices: the mock data
OrcaPrices ==
    <<PriceData(<<"SOL", "USDC">>, Dec(8950, -2), Dec(8000000, 0), "Orca"),
      PriceData(<<"RAY", "SOL">>, Dec(45, -4), Dec(1200000, 0), "Orca")>>

\* a price_info of the Jupiter response, with or without a 'price' entry
PriceInfo(has_price, price) == [has_price |-> has_price, price |-> price]

\* Decimal(str(price_info.get('price', 0)))
JupiterPrice(price_info) ==
    IF price_info.has_price THEN price_info.price ELSE Dec(0, 0)

\* fetch_jupiter_prices: one PriceData per entry of data['data'], keyed
\* f"{token_id}/USD", with the placeholder liquidity Decimal('3000000')
JupiterPrices(data) ==
    [i \in 1..Len(data) |->
        PriceData(<<data[i].token_id, "USD">>, JupiterPrice(data[i].price_info),
                  Dec(3000000, 0), "Jupiter")]

\* isinstance(result, dict)
IsDict(result) == result.kind = "dict"

\* asyncio.gather(*tasks) without return_exceptions: an exception of a task is
\* raised in the caller
GatherPropagating(task_results) ==
    IF \E t \in 1..Len(task_results) : ~IsDict(task_results[t])
    THEN [raised |-> TRUE, results |-> <<>>]
    ELSE [raised |-> FALSE, results |-> task_results]

\* the results in the order in which the tasks completed
ResultsAsCompleted(task_results, completion_order) ==
    [i \in 1..Len(task_results) |-> task_results[completion_order[i]]]

\* results = await asyncio.gather(*tasks, ...): the list follows the order of
\* the awaitables passed, whatever the order in which they completed
ResultsOfGather(task_results, completion_order) == task_results

\* asyncio.gather(*tasks, return_exceptions=True): the results in task order,
\* exceptions among them
Gather(task_results) == [raised |-> FALSE, results |-> task_results]

\* all_prices[symbol] = [price_data]: the list of the symbol is replaced
AddQuoteReplacing(md, price_data, k) ==
    IF k = 0
    THEN Append(md, [symbol |-> price_data.symbol, price_list |-> <<price_data>>])
    ELSE [md EXCEPT ![k].price_list = <<price_data>>]

\* if symbol not in all_prices: all_prices[symbol] = []
\* all_prices[symbol].append(price_data)     (k is the index of the symbol's item)
AddQuote(md, price_data, k) ==
    IF k = 0
    THEN Append(md, [symbol |-> price_data.symbol, price_list |-> <<price_data>>])
    ELSE [md EXCEPT ![k].price_list = Append(@, price_data)]

\* for symbol, price_data in result.items(): from the i-th entry on
RECURSIVE MergeResult(_, _, _)
MergeResult(all, prices, i) ==
    IF i > Len(prices) THEN all
    ELSE MergeResult(AddQuote(all, prices[i], ItemIndex(all, prices[i].symbol)),
                     prices, i + 1)

\* for result in results: from the t-th result on
RECURSIVE MergeResults(_, _, _)
MergeResults(all, results, t) ==
    IF t > Len(results) THEN all
    ELSE IF IsDict(results[t])
    THEN MergeResults(MergeResult(all, results[t].prices, 1), results, t + 1)
    ELSE MergeResults(all, results, t + 1)

\* the code behind the await: the mapping returned, or raised
CombineResults(gathered) ==
    IF gathered.raised THEN [raised |-> TRUE, all_prices |-> <<>>]
    ELSE [raised |-> FALSE, all_prices |-> MergeResults(<<>>, gathered.results, 1)]

GetAllPrices(task_results) == CombineResults(Gather(task_results))

(***************************************************************************)
(* MarketDataProvider.get_price_differences                                *)
(* The threshold 0.1 is a float, 5.6e-18 above one tenth: no Decimal of    *)
(* 17 digits or fewer lies between the two, so that for the values of this *)
(* model the comparison is the one with the Decimal one tenth.             *)
(***************************************************************************)

\* the dict appended to differences
Difference(symbol, lowest, highest) ==
    [symbol |-> symbol, lowest_price |-> lowest.price,
     highest_price |-> highest.price, difference |-> PriceDiff(lowest, highest),
     percentage |-> PercentageDiff(lowest, highest),
     buy_from |-> lowest.source, sell_to |-> highest.source,
     liquidity |-> DMin(lowest.liquidity, highest.liquidity)]

\* one step of differences.sort(key=percentage, reverse=True): the sort is stable
RECURSIVE InsertByPercentage(_, _)
InsertByPercentage(sorted, d) ==
    IF sorted = <<>> THEN <<d>>
    ELSE IF DGe(Head(sorted).percentage, d.percentage)
         THEN <<Head(sorted)>> \o InsertByPercentage(Tail(sorted), d)
         ELSE <<d>> \o sorted

RECURSIVE SortByPercentageDesc(_)
SortByPercentageDesc(ds) ==
    IF ds = <<>> THEN <<>>
    ELSE InsertByPercentage(SortByPercentageDesc(SubSeq(ds, 1, Len(ds) - 1)),
                            ds[Len(ds)])

RECURSIVE DifferencesLoop(_, _, _)

\* the body of the loop for a symbol of two quotes or more: the division raises
\* when the lowest price is zero
DifferencesOfSymbol(all_prices, k, differences, lowest, highest) ==
    IF DDivRaises(PriceDiff(lowest, highest), lowest.price)
    THEN [raised |-> TRUE, differences |-> <<>>]
    ELSE IF DGt(PercentageDiff(lowest, highest), Dec(1, -1))
    THEN DifferencesLoop(all_prices, k + 1,
                         Append(differences,
                                Difference(all_prices[k].symbol, lowest, highest)))
    ELSE DifferencesLoop(all_prices, k + 1, differences)

\* lowest = sorted_prices[0]; highest = sorted_prices[-1]
DifferencesSorted(all_prices, k, differences, sorted_prices) ==
    DifferencesOfSymbol(all_prices, k, differences,
                        sorted_prices[1], sorted_prices[Len(sorted_prices)])

\* the loop over all_prices.items() from the k-th item on, then the sort
DifferencesLoop(all_prices, k, differences) ==
    IF k > Len(all_prices)
    THEN [raised |-> FALSE, differences |-> SortByPercentageDesc(differences)]
    ELSE IF Len(all_prices[k].price_list) < 2
    THEN DifferencesLoop(all_prices, k + 1, differences)
    ELSE DifferencesSorted(all_prices, k, differences,
                           SortByPrice(all_prices[k].price_list))

\* the list returned, or raised when an exception leaves the function;
\* prices is what the awaited get_all_prices handed back
GetPriceDifferences(prices) ==
    IF prices.raised THEN [raised |-> TRUE, differences |-> <<>>]
    ELSE DifferencesLoop(prices.all_prices, 1, <<>>)

(***************************************************************************)
(* State                                                                   *)
(***************************************************************************)

VARIABLES
    rank_pc,            \* "build" while the candidate list grows, then "filtered"
    profitable_routes,  \* find_profitable_routes: the candidate list handed to the filter
    filtered_routes     \* find_profitable_routes: the list returned

rankVars == <<rank_pc, profitable_routes, filtered_routes>>

VARIABLES
    paths_pc,           \* "build" while the pool list grows, then "found"
    pools,              \* the PoolInfo list handed to _find_triangular_arbitrage
    base_token,         \* _find_triangular_paths: its base_token
    triangular_paths    \* _find_triangular_paths: the list returned

pathsVars == <<paths_pc, pools, base_token, triangular_paths>>

VARIABLES
    swap_pc,            \* "pool" until the pool is fixed, then "calls"
    swap_pool,          \* _calculate_swap_output: its pool
    swap_a_to_b,        \* _calculate_swap_output: its direction
    swap_calls          \* the calls made on that pool: input_amount and the value returned

swapVars == <<swap_pc, swap_pool, swap_a_to_b, swap_calls>>

VARIABLES
    tri_pc,             \* "build" while the pool list grows, then "analyzed"
    tri_pools,          \* _analyze_triangular_profit: its pools
    tri_path,           \* _analyze_triangular_profit: its path
    best_pool_calls,    \* the _find_best_pool calls of the first amount's trade
    profit_analysis,    \* _find_triangular_arbitrage: the dict returned for the path
    routes              \* _find_triangular_arbitrage: the routes appended for the path

triVars == <<tri_pc, tri_pools, tri_path, best_pool_calls, profit_analysis, routes>>

VARIABLES
    quote_pc,           \* "build" while the snapshot grows, then "converted" or "direct"
    market_data,        \* find_profitable_routes: its market_data, as a list of items
    convert_result,     \* _convert_to_pools: the pools returned, or raised
    direct_result       \* _find_direct_arbitrage: the routes returned, or raised

quoteVars == <<quote_pc, market_data, convert_result, direct_result>>

VARIABLES
    fetch_pc,           \* get_all_prices: "gather" while it awaits, then "returned";
                        \* "differences" once get_price_differences is through
    task_results,       \* the result of each task of gather, "pending" until it is done
    completion_order,   \* the tasks in the order they completed
    prices_result,      \* get_all_prices: the mapping returned, or raised
    differences_result  \* get_price_differences: the list returned, or raised

fetchVars ==
    <<fetch_pc, task_results, completion_order, prices_result, differences_result>>

VARIABLES
    scan_pc,            \* ArbBot: "idle" while the mapping of the cycle is fetched,
                        \* "execute" once run_cycle has chosen the best
                        \* opportunity, "ended" when run_cycle is through
    optimizer,          \* the ArbitrageOptimizer: the attributes set by __init__
    token_order,        \* the order in which this process iterates a set of tokens
    snapshot,           \* the mapping get_all_prices returns to the next cycle
    scan_count,         \* the calls of find_profitable_routes made so far
    last_candidates,    \* the candidate list of the last call (a local of that
                        \* call, which the optimizer does not keep)
    scan_market_data,   \* find_profitable_routes: its market_data in the last call
    market_data_after,  \* find_profitable_routes: the mapping once the call is over
    scan_result,        \* find_profitable_routes: what the last call returned, or raised
    fresh_result,       \* the same call made on a freshly constructed optimizer
    opportunities,      \* scan_opportunities: the list returned in the last cycle
    execute_calls,      \* the execute_arbitrage calls of the last cycle
    earlier_opportunities, \* the opportunities the scans of the cycles before
                        \* the last one returned
    cycle_end           \* how the last run_cycle ended

scanVars ==
    <<scan_pc, optimizer, token_order, snapshot, scan_count, last_candidates,
      scan_market_data, market_data_after, scan_result, fresh_result,
      opportunities, execute_calls, earlier_opportunities, cycle_end>>

VARIABLES
    tx_pc,              \* TransactionManager.execute_arbitrage: "called", "swaps"
                        \* while the swap instructions are created, "send" once
                        \* the repayment instruction exists, "returned"
    tx_route,           \* its route
    tx_borrow_amount,   \* its borrow_amount
    borrow_ix,          \* the flash loan instruction, once created
    swap_instructions,  \* the swap instructions created so far
    current_amount,     \* the amount of the next swap
    repay_ix,           \* the repayment instruction, once created
    sent_instructions,  \* the list handed to _build_and_send_transaction
    tx_result           \* what execute_arbitrage returned

txVars ==
    <<tx_pc, tx_route, tx_borrow_amount, borrow_ix, swap_instructions,
      current_amount, repay_ix, sent_instructions, tx_result>>

VARIABLES
    start_pc,           \* ArbBot.start: "not_started", "initialize", "loop" at the
                        \* test of the while, "scan" and "execute" inside
                        \* run_cycle, "sleep", "returned"
    running,            \* ArbBot.running
    stopped,            \* stop() has been called since start() set running
    cycles_begun,       \* the calls of run_cycle made by start
    cycle_opportunities, \* run_cycle: the list its scan returned
    cycle_results       \* how the calls of run_cycle ended, in order

startVars ==
    <<start_pc, running, stopped, cycles_begun, cycle_opportunities, cycle_results>>

vars ==
    <<rankVars, pathsVars, swapVars, triVars, quoteVars, fetchVars, scanVars,
      txVars, startVars>>

\* what the actions of one specification leave unchanged
notRankVars ==
    <<pathsVars, swapVars, triVars, quoteVars, fetchVars, scanVars,
      txVars, startVars>>
notPathsVars ==
    <<rankVars, swapVars, triVars, quoteVars, fetchVars, scanVars,
      txVars, startVars>>
notSwapVars ==
    <<rankVars, pathsVars, triVars, quoteVars, fetchVars, scanVars,
      txVars, startVars>>
notTriVars ==
    <<rankVars, pathsVars, swapVars, quoteVars, fetchVars, scanVars,
      txVars, startVars>>
notQuoteVars ==
    <<rankVars, pathsVars, swapVars, triVars, fetchVars, scanVars,
      txVars, startVars>>
notFetchVars ==
    <<rankVars, pathsVars, swapVars, triVars, quoteVars, scanVars,
      txVars, startVars>>
notScanVars ==
    <<rankVars, pathsVars, swapVars, triVars, quoteVars, fetchVars,
      txVars, startVars>>

notTxVars ==
    <<rankVars, pathsVars, swapVars, triVars, quoteVars, fetchVars, scanVars,
      startVars>>
notStartVars ==
    <<rankVars, pathsVars, swapVars, triVars, quoteVars, fetchVars, scanVars,
      txVars>>

\* the parts of the state a specification leaves alone
RankIdle ==
    /\ rank_pc = "off"
    /\ profitable_routes = <<>>
    /\ filtered_routes = <<>>

PathsIdle ==
    /\ paths_pc = "off"
    /\ pools = <<>>
    /\ base_token = "none"
    /\ triangular_paths = <<>>

SwapIdle ==
    /\ swap_pc = "off"
    /\ swap_pool = <<>>
    /\ swap_a_to_b = TRUE
    /\ swap_calls = <<>>

TriIdle ==
    /\ tri_pc = "off"
    /\ tri_pools = <<>>
    /\ tri_path = <<>>
    /\ best_pool_calls = <<>>
    /\ profit_analysis = <<>>
    /\ routes = <<>>

QuoteIdle ==
    /\ quote_pc = "off"
    /\ market_data = <<>>
    /\ convert_result = <<>>
    /\ direct_result = <<>>

FetchIdle ==
    /\ fetch_pc = "off"
    /\ task_results = <<>>
    /\ completion_order = <<>>
    /\ prices_result = <<>>
    /\ differences_result = <<>>

ScanIdle ==
    /\ scan_pc = "off"
    /\ optimizer = <<>>
    /\ token_order = <<>>
    /\ snapshot = <<>>
    /\ scan_count = 0
    /\ last_candidates = <<>>
    /\ scan_market_data = <<>>
    /\ market_data_after = <<>>
    /\ scan_result = <<>>
    /\ fresh_result = <<>>
    /\ opportunities = <<>>
    /\ execute_calls = <<>>
    /\ earlier_opportunities = {}
    /\ cycle_end = "none"

TxIdle ==
    /\ tx_pc = "off"
    /\ tx_route = <<>>
    /\ tx_borrow_amount = <<>>
    /\ borrow_ix = <<>>
    /\ swap_instructions = <<>>
    /\ current_amount = <<>>
    /\ repay_ix = <<>>
    /\ sent_instructions = <<>>
    /\ tx_result = "none"

StartIdle ==
    /\ start_pc = "off"
    /\ running = FALSE
    /\ stopped = FALSE
    /\ cycles_begun = 0
    /\ cycle_opportunities = <<>>
    /\ cycle_results = <<>>

(***************************************************************************)
(* SpecRank: _filter_profitable_routes applied to every candidate list     *)
(***************************************************************************)

\* longest candidate list examined
MaxRoutes == 11

\* most candidates of a list that are not above the threshold
MaxUnprofitable == 1

\* the profits a candidate may carry: the threshold itself, and two above it
RankProfits == {Dec(100, -1), Dec(1001, -2), Dec(25, 0)}

Unprofitable(rs) == {i \in 1..Len(rs) : ~IsProfitable(rs[i])}

RankInit ==
    /\ rank_pc = "build"
    /\ profitable_routes = <<>>
    /\ filtered_routes = <<>>

\* profitable_routes.extend(...): one more candidate; pos is its place in the list
RankExtend ==
    /\ rank_pc = "build"
    /\ Len(profitable_routes) < MaxRoutes
    /\ \E p \in RankProfits :
         /\ DLe(p, min_profit_threshold)
              => Cardinality(Unprofitable(profitable_routes)) < MaxUnprofitable
         /\ profitable_routes' = Append(profitable_routes,
                                   [profit |-> p, pos |-> Len(profitable_routes) + 1])
    /\ UNCHANGED <<rank_pc, filtered_routes>>
    /\ UNCHANGED notRankVars

\* filtered_routes = self._filter_profitable_routes(profitable_routes)
RankFilter ==
    /\ rank_pc = "build"
    /\ filtered_routes' = FilterProfitableRoutes(profitable_routes)
    /\ rank_pc' = "filtered"
    /\ UNCHANGED profitable_routes
    /\ UNCHANGED notRankVars

RankNext == RankExtend \/ RankFilter

SpecRankInit ==
    RankInit /\ PathsIdle /\ SwapIdle /\ TriIdle /\ QuoteIdle /\ FetchIdle /\ ScanIdle
        /\ TxIdle /\ StartIdle

SpecRank == SpecRankInit /\ [][RankNext]_vars

\* the candidates of the input list whose profit is above the threshold
RankCandidates ==
    {i \in 1..Len(profitable_routes) :
        DGt(profitable_routes[i].profit, min_profit_threshold)}

\* r1 ranks before r2: a greater profit, or the same profit and earlier in the input
RanksBefore(r1, r2) ==
    \/ DGt(r1.profit, r2.profit)
    \/ r1.profit = r2.profit /\ r1.pos < r2.pos

\* C1: the list returned by _filter_profitable_routes (which find_profitable_routes
\* returns as it is) has at most 10 entries, each with a profit strictly greater
\* than min_profit_threshold.
C1_AtMostTenAllAboveThreshold ==
    rank_pc = "filtered" =>
        /\ Len(filtered_routes) <= 10
        /\ \A k \in 1..Len(filtered_routes) :
              DGt(filtered_routes[k].profit, min_profit_threshold)

\* C1 witness: eleven candidates above the threshold were filtered down to ten
C1_Witness ==
    /\ rank_pc = "filtered"
    /\ Len(profitable_routes) = 11
    /\ Cardinality(RankCandidates) = 11
    /\ Len(filtered_routes) = 10

\* C10: the result is the first 10 of the candidates above the threshold in
\* non-increasing order of profit, candidates of equal profit in input order;
\* every omitted candidate ranks behind every returned one.
C10_FirstTenOfStableDescendingOrder ==
    rank_pc = "filtered" =>
        LET cands    == RankCandidates
            returned == {filtered_routes[k].pos : k \in 1..Len(filtered_routes)}
        IN  /\ Len(filtered_routes) =
                  (IF Cardinality(cands) < 10 THEN Cardinality(cands) ELSE 10)
            /\ \A k \in 1..Len(filtered_routes) :
                  /\ filtered_routes[k].pos \in cands
                  /\ filtered_routes[k] = profitable_routes[filtered_routes[k].pos]
            /\ \A k \in 1..(Len(filtered_routes) - 1) :
                  RanksBefore(filtered_routes[k], filtered_routes[k + 1])
            /\ \A j \in cands \ returned :
                  \A k \in 1..Len(filtered_routes) :
                      RanksBefore(filtered_routes[k], profitable_routes[j])

\* C10 witness: a filtered list with two returned candidates of equal profit, two of
\* different profit, and a candidate above the threshold cut off by the bound
C10_Witness ==
    /\ rank_pc = "filtered"
    /\ Len(filtered_routes) = 10
    /\ Cardinality(RankCandidates) > 10
    /\ \E k \in 1..9 : filtered_routes[k].profit = filtered_routes[k + 1].profit
    /\ \E k \in 1..9 : DGt(filtered_routes[k].profit, filtered_routes[k + 1].profit)

(***************************************************************************)
(* SpecPaths: _find_triangular_paths over every pool list                  *)
(***************************************************************************)

\* longest pool list examined
MaxPools == 3

Tokens == {"SOL", "USDC", "RAY"}

One == Dec(1, 0)

\* DEX fee of the pools built by _convert_to_pools: Decimal('0.003')
PoolFee == Dec(3, -3)

PathsInit ==
    /\ paths_pc = "build"
    /\ pools = <<>>
    /\ base_token = "none"
    /\ triangular_paths = <<>>

\* one more pool, of any two tokens (in either role, the same token twice included)
PathsAddPool ==
    /\ paths_pc = "build"
    /\ Len(pools) < MaxPools
    /\ \E ta \in Tokens, tb \in Tokens :
         pools' = Append(pools, PoolInfo("orca", ta, tb, One, One, PoolFee, Dec(2, 0)))
    /\ UNCHANGED <<paths_pc, base_token, triangular_paths>>
    /\ UNCHANGED notPathsVars

\* triangular_paths = self._find_triangular_paths(base_token, token_pools)
PathsFind ==
    /\ paths_pc = "build"
    /\ \E b \in Tokens :
         \E order \in IterationOrders(ConnectedTokens(b, GroupByToken(pools))) :
            /\ base_token' = b
            /\ triangular_paths' = FindTriangularPaths(b, GroupByToken(pools), order)
    /\ paths_pc' = "found"
    /\ UNCHANGED pools
    /\ UNCHANGED notPathsVars

PathsNext == PathsAddPool \/ PathsFind

SpecPathsInit ==
    PathsInit /\ RankIdle /\ SwapIdle /\ TriIdle /\ QuoteIdle /\ FetchIdle /\ ScanIdle
        /\ TxIdle /\ StartIdle

SpecPaths == SpecPathsInit /\ [][PathsNext]_vars

\* some pool of the list trades the two tokens
Connects(ps, t1, t2) ==
    \E i \in 1..Len(ps) :
        \/ ps[i].token_a = t1 /\ ps[i].token_b = t2
        \/ ps[i].token_a = t2 /\ ps[i].token_b = t1

\* C2: every path [base, token1, token2, base] that _find_triangular_paths emits has
\* a pool for each of its three consecutive token pairs; a path whose middle pair
\* has no pool is never emitted.
C2_EveryHopHasAPool ==
    paths_pc = "found" =>
        \A k \in 1..Len(triangular_paths) :
            LET path == triangular_paths[k]
            IN  /\ Len(path) = 4
                /\ path[1] = base_token /\ path[4] = base_token
                /\ \A h \in 1..3 : Connects(pools, path[h], path[h + 1])

\* C2 witness: a path was emitted while another pair of tokens, both trading with
\* the base token, was refused for want of a pool between them
C2_Witness ==
    /\ paths_pc = "found"
    /\ triangular_paths # <<>>
    /\ \E t1, t2 \in Tokens :
          /\ t1 # t2
          /\ Connects(pools, base_token, t1)
          /\ Connects(pools, base_token, t2)
          /\ ~Connects(pools, t1, t2)

\* the paths the rule defines: one for every ordered pair of distinct tokens
\* that each share a pool with the base token and share a pool with each other
RulePaths(ps, b) ==
    {<<b, t1, t2, b>> : <<t1, t2>> \in
        {pair \in Tokens \X Tokens :
            /\ pair[1] # pair[2]
            /\ Connects(ps, b, pair[1])
            /\ Connects(ps, b, pair[2])
            /\ Connects(ps, pair[1], pair[2])}}

\* the set of the emitted paths
EmittedPaths == {triangular_paths[k] : k \in 1..Len(triangular_paths)}

\* C21: _find_triangular_paths emits [base, token1, token2, base] for every
\* ordered pair of distinct tokens that each share a pool with base and share a
\* pool with each other, and nothing else; token1 differs from token2 in every
\* emitted path.
C21_EmitsExactlyTheConnectedPairs ==
    paths_pc = "found" =>
        /\ EmittedPaths = RulePaths(pools, base_token)
        /\ \A k \in 1..Len(triangular_paths) :
              triangular_paths[k][2] # triangular_paths[k][3]

\* C21 witness: the two paths of a triangle of three different tokens were
\* emitted from a pool list in which a pool names the base token as its token_b
C21_Witness ==
    /\ paths_pc = "found"
    /\ Len(triangular_paths) = 2
    /\ triangular_paths[1][2] # base_token
    /\ triangular_paths[1][3] # base_token
    /\ \E i \in 1..Len(pools) :
          pools[i].token_b = base_token /\ pools[i].token_a # base_token

\* the number of emitted paths that visit the two tokens, in either order
TimesEmitted(t1, t2) ==
    Cardinality({k \in 1..Len(triangular_paths) :
                    {triangular_paths[k][2], triangular_paths[k][3]} = {t1, t2}})

\* C26: whenever [base, token1, token2, base] is emitted the reversed cycle
\* [base, token2, token1, base] is emitted too, so that every triangle is
\* emitted exactly twice for a base token.
C26_MirroredCyclesAreBothEmitted ==
    paths_pc = "found" =>
        \A k \in 1..Len(triangular_paths) :
            /\ <<base_token, triangular_paths[k][3], triangular_paths[k][2], base_token>>
                  \in EmittedPaths
            /\ TimesEmitted(triangular_paths[k][2], triangular_paths[k][3]) = 2

\* C26 witness: a cycle and its mirror were emitted over pools that list their
\* tokens so that the cycle reads token_a to token_b on every hop
C26_Witness ==
    /\ paths_pc = "found"
    /\ Len(triangular_paths) = 2
    /\ \E k \in 1..2 :
          \A h \in 1..3 :
              \E i \in 1..Len(pools) :
                  /\ pools[i].token_a = triangular_paths[k][h]
                  /\ pools[i].token_b = triangular_paths[k][h + 1]

(***************************************************************************)
(* SpecSwap: _calculate_swap_output called repeatedly on one pool          *)
(***************************************************************************)

\* most calls made on one pool
MaxSwapCalls == 2

\* positive reserves, from a dust reserve to a deep one
SwapReserves == {Dec(1, -30), Dec(1, 0), Dec(7, 0), Dec(44692, 0), Dec(4, 6)}

\* fee rates in [0, 1)
SwapFees == {Dec(0, 0), Dec(3, -3), Dec(5, -1)}

\* input amounts: zero and the amounts _analyze_triangular_profit tries
SwapAmounts == {Dec(0, 0), Dec(1, 2), Dec(1, 3), Dec(1, 4), Dec(1, 5)}

SwapInit ==
    /\ swap_pc = "pool"
    /\ swap_pool = <<>>
    /\ swap_a_to_b = TRUE
    /\ swap_calls = <<>>

\* the pool and the direction the calls share
SwapChoosePool ==
    /\ swap_pc = "pool"
    /\ \E ra \in SwapReserves, rb \in SwapReserves, fee \in SwapFees :
         swap_pool' = PoolInfo("orca", "SOL", "USDC", ra, rb, fee, DAdd(ra, rb))
    /\ swap_a_to_b' \in BOOLEAN
    /\ swap_pc' = "calls"
    /\ UNCHANGED swap_calls
    /\ UNCHANGED notSwapVars

\* output_amount = self._calculate_swap_output(input_amount, pool, a_to_b)
SwapCall ==
    /\ swap_pc = "calls"
    /\ Len(swap_calls) < MaxSwapCalls
    /\ \E amount \in SwapAmounts :
         /\ ~CalculateSwapOutputRaises(amount, swap_pool, swap_a_to_b)
         /\ swap_calls' = Append(swap_calls,
                [input_amount |-> amount,
                 output |-> CalculateSwapOutput(amount, swap_pool, swap_a_to_b)])
    /\ UNCHANGED <<swap_pc, swap_pool, swap_a_to_b>>
    /\ UNCHANGED notSwapVars

SwapNext == SwapChoosePool \/ SwapCall

SpecSwapInit ==
    SwapInit /\ RankIdle /\ PathsIdle /\ TriIdle /\ QuoteIdle /\ FetchIdle /\ ScanIdle
        /\ TxIdle /\ StartIdle

SpecSwap == SpecSwapInit /\ [][SwapNext]_vars

\* C3: for fixed positive reserves and a fee rate in [0, 1) the output is
\* non-decreasing in the input amount, and for every positive input amount it is
\* strictly less than the reserve of the output side.
C3_MonotoneAndBelowOutputReserve ==
    /\ \A i, j \in 1..Len(swap_calls) :
          DLe(swap_calls[i].input_amount, swap_calls[j].input_amount)
             => DLe(swap_calls[i].output, swap_calls[j].output)
    /\ \A i \in 1..Len(swap_calls) :
          DGt(swap_calls[i].input_amount, DZero)
             => DLt(swap_calls[i].output, OutputReserve(swap_pool, swap_a_to_b))

(***************************************************************************)
(* SpecTri: _analyze_triangular_profit on every path over every pool list, *)
(* and the route _find_triangular_arbitrage appends for it                 *)
(***************************************************************************)

\* longest pool list analysed
MaxTriPools == 3

\* the pairs that have pools, in the order their pools are listed
TriSymbols == <<(<<"SOL", "USDC">>), (<<"USDC", "RAY">>), (<<"SOL", "RAY">>)>>

\* reserve_a, reserve_b and liquidity of a pool: what _convert_to_pools derives
\* from a quote of liquidity 0, from deep quotes of price 1 and 1.05 and from a
\* shallow quote of price 2
TriReserves ==
    {[a |-> DZero, b |-> DZero, l |-> DZero],
     [a |-> Dec(1, 6), b |-> Dec(1, 6), l |-> Dec(2, 6)],
     [a |-> Dec(952381, 0), b |-> Dec(1, 6), l |-> Dec(2, 6)],
     [a |-> Dec(1, 3), b |-> Dec(2, 3), l |-> Dec(4, 3)]}

\* the place of a pool's pair in TriSymbols
SymbolIndex(pool) ==
    CHOOSE k \in 1..Len(TriSymbols) :
        TriSymbols[k] = <<pool.token_a, pool.token_b>>

TriInit ==
    /\ tri_pc = "build"
    /\ tri_pools = <<>>
    /\ tri_path = <<>>
    /\ best_pool_calls = <<>>
    /\ profit_analysis = <<>>
    /\ routes = <<>>

\* one more pool; the pools of one pair are listed together
TriAddPool ==
    /\ tri_pc = "build"
    /\ Len(tri_pools) < MaxTriPools
    /\ \E k \in 1..Len(TriSymbols), r \in TriReserves :
         /\ tri_pools # <<>> => SymbolIndex(tri_pools[Len(tri_pools)]) <= k
         /\ tri_pools' = Append(tri_pools,
               PoolInfo("orca", TriSymbols[k][1], TriSymbols[k][2], r.a, r.b, PoolFee, r.l))
    /\ UNCHANGED <<tri_pc, tri_path, best_pool_calls, profit_analysis, routes>>
    /\ UNCHANGED notTriVars

\* profit_analysis = await self._analyze_triangular_profit(path, pools)
\* if profit_analysis['net_profit'] > self.min_profit_threshold: routes.append(...)
TriAnalyze ==
    /\ tri_pc = "build"
    /\ \E b \in Tokens, t1 \in Tokens, t2 \in Tokens :
         /\ b # t1 /\ b # t2 /\ t1 # t2
         /\ tri_path' = <<b, t1, t2, b>>
         /\ best_pool_calls' =
               BestPoolCalls(<<b, t1, t2, b>>, tri_pools, 1, test_amounts[1])
         /\ profit_analysis' = AnalyzeTriangularProfit(<<b, t1, t2, b>>, tri_pools)
         /\ routes' = TriangularRoutesOf(<<b, t1, t2, b>>, profit_analysis')
    /\ tri_pc' = "analyzed"
    /\ UNCHANGED tri_pools
    /\ UNCHANGED notTriVars

TriNext == TriAddPool \/ TriAnalyze

SpecTriInit ==
    TriInit /\ RankIdle /\ PathsIdle /\ SwapIdle /\ QuoteIdle /\ FetchIdle /\ ScanIdle
        /\ TxIdle /\ StartIdle

SpecTri == SpecTriInit /\ [][TriNext]_vars

\* the amount held after hop i of the path is traded through best_pool (an index
\* of ps, 0 when the hop has no pool: nothing is held then)
HopThrough(path, ps, i, amount, best_pool) ==
    IF best_pool = 0 THEN DZero
    ELSE CalculateSwapOutput(amount, ps[best_pool], path[i] = ps[best_pool].token_a)

HopOutput(path, ps, i, amount) ==
    HopThrough(path, ps, i, amount, FindBestPool(path[i], path[i + 1], ps))

\* final_amount: the amount swapped hop by hop along a path of three hops
FinalAmount(path, ps, amount) ==
    HopOutput(path, ps, 3, HopOutput(path, ps, 2, HopOutput(path, ps, 1, amount)))

\* final_amount - initial_amount
GrossOfAmount(path, ps, amount) == DSub(FinalAmount(path, ps, amount), amount)

\* final_amount - initial_amount - k * hop_cost, for the k hops of the path
NetOfAmount(path, ps, amount) ==
    DSub(GrossOfAmount(path, ps, amount),
         DMul(Dec(Len(path) - 1, 0), gas_price_estimate))

\* some hop of the path has no pool connecting its two tokens
MissingHop(path, ps) ==
    \E h \in 1..(Len(path) - 1) : ~Connects(ps, path[h], path[h + 1])

\* C4 as stated: the net_profit returned equals final_amount - initial_amount
\* - k * hop_cost for initial_amount the returned optimal_amount.
C4_NetProfitOfReturnedAmount ==
    (tri_pc = "analyzed" /\ ~profit_analysis.raised) =>
        profit_analysis.net_profit =
            NetOfAmount(tri_path, tri_pools, profit_analysis.optimal_amount)

\* C4 amended: whenever _analyze_triangular_profit returns, a net_profit above 0
\* equals final_amount - initial_amount - k * hop_cost for the returned
\* optimal_amount, which is one of test_amounts; otherwise net_profit is 0,
\* optimal_amount is the default 1000 and no test amount nets more than 0.
C4_NetProfitOfReturnedAmountOrZero ==
    (tri_pc = "analyzed" /\ ~profit_analysis.raised) =>
        IF DGt(profit_analysis.net_profit, DZero)
        THEN /\ \E k \in 1..Len(test_amounts) :
                    profit_analysis.optimal_amount = test_amounts[k]
             /\ profit_analysis.net_profit =
                    NetOfAmount(tri_path, tri_pools, profit_analysis.optimal_amount)
        ELSE /\ profit_analysis.net_profit = DZero
             /\ profit_analysis.optimal_amount = Dec(1000, 0)
             /\ \A k \in 1..Len(test_amounts) :
                    DLe(NetOfAmount(tri_path, tri_pools, test_amounts[k]), DZero)

\* C4 witness: a path analysed with a net profit above 0 in which the hop costs
\* count (the net profit is not the gross one)
C4_Witness ==
    /\ tri_pc = "analyzed"
    /\ ~profit_analysis.raised
    /\ DGt(profit_analysis.net_profit, DZero)
    /\ profit_analysis.net_profit #
           GrossOfAmount(tri_path, tri_pools, profit_analysis.optimal_amount)

\* C9: for a path with a hop that no pool connects, _analyze_triangular_profit
\* completes without raising and returns net_profit 0, and no route is appended
\* for the path.
C9_MissingHopYieldsZeroWithoutRaising ==
    (tri_pc = "analyzed" /\ MissingHop(tri_path, tri_pools)) =>
        /\ ~profit_analysis.raised
        /\ profit_analysis.net_profit = DZero
        /\ routes = <<>>

\* the spot rate of hop h of the path: the rate of the pool _find_best_pool
\* selects for it
HopRate(path, ps, h) ==
    ExchangeRate(ps[FindBestPool(path[h], path[h + 1], ps)], path[h])

\* the path is a cycle of three hops, each through a pool with the 0.3 % fee,
\* and the spot rates around the cycle multiply to 1: no price divergence
NoDivergence(path, ps) ==
    /\ ~MissingHop(path, ps)
    /\ \A h \in 1..3 :
          ps[FindBestPool(path[h], path[h + 1], ps)].fee = Dec(3, -3)
    /\ DMul(DMul(HopRate(path, ps, 1), HopRate(path, ps, 2)), HopRate(path, ps, 3))
          = Dec(1, 0)

\* C14: for a triangular path whose three hop pools have the 0.3 % fee and no
\* price divergence (the spot rates around the cycle multiply to 1), every
\* amount of the sweep nets at most 0, the net profit reported is at most 0 and
\* no route is produced for the path, so that none can be in the list returned
\* by find_profitable_routes.
C14_NoDivergenceNoProfit ==
    (/\ tri_pc = "analyzed"
     /\ ~profit_analysis.raised
     /\ NoDivergence(tri_path, tri_pools)) =>
        /\ \A k \in 1..Len(test_amounts) :
              DLe(NetOfAmount(tri_path, tri_pools, test_amounts[k]), DZero)
        /\ DLe(profit_analysis.net_profit, DZero)
        /\ routes = <<>>

\* C14 witness: a cycle without divergence was analysed whose pools are not all
\* at the same price: one hop doubles the amount at the spot rate and another
\* halves it
C14_Witness ==
    /\ tri_pc = "analyzed"
    /\ ~profit_analysis.raised
    /\ NoDivergence(tri_path, tri_pools)
    /\ \E h \in 1..3 : HopRate(tri_path, tri_pools, h) = Dec(2, 0)
    /\ profit_analysis.net_profit = DZero
    /\ routes = <<>>

\* the amount is one of test_amounts
InSweepSet(amount) == \E k \in 1..Len(test_amounts) : amount = test_amounts[k]

\* no amount of test_amounts nets more than this one along the path
MaximalOverSweep(path, ps, amount) ==
    \A k \in 1..Len(test_amounts) :
        DGe(NetOfAmount(path, ps, amount), NetOfAmount(path, ps, test_amounts[k]))

\* some amount of test_amounts nets more than 0 along the path
SomeAmountProfitable(path, ps) ==
    \E k \in 1..Len(test_amounts) :
        DGt(NetOfAmount(path, ps, test_amounts[k]), DZero)

\* C22 as stated: the optimal_amount returned is a member of the sweep set and
\* its net profit is maximal over the sweep set, also when no amount of the
\* set is profitable.
C22_OptimalAmountMaximalOverSweep ==
    (tri_pc = "analyzed" /\ ~profit_analysis.raised) =>
        /\ InSweepSet(profit_analysis.optimal_amount)
        /\ MaximalOverSweep(tri_path, tri_pools, profit_analysis.optimal_amount)

\* C22 amended: the optimal_amount returned is a member of the sweep set; when
\* some amount of the set nets more than 0 it is an amount whose net profit is
\* maximal over the set, and when none does it is the default 1000, whatever
\* the other amounts net.
C22_OptimalAmountMaximalWhenProfitable ==
    (tri_pc = "analyzed" /\ ~profit_analysis.raised) =>
        /\ InSweepSet(profit_analysis.optimal_amount)
        /\ IF SomeAmountProfitable(tri_path, tri_pools)
           THEN MaximalOverSweep(tri_path, tri_pools, profit_analysis.optimal_amount)
           ELSE profit_analysis.optimal_amount = Dec(1000, 0)

\* C22 witness: the amount returned nets more than an earlier amount of the
\* sweep that is profitable too
C22_Witness ==
    /\ tri_pc = "analyzed"
    /\ ~profit_analysis.raised
    /\ \E k \in 1..Len(test_amounts) :
          /\ DLt(test_amounts[k], profit_analysis.optimal_amount)
          /\ DGt(NetOfAmount(tri_path, tri_pools, test_amounts[k]), DZero)
          /\ DGt(profit_analysis.net_profit,
                 NetOfAmount(tri_path, tri_pools, test_amounts[k]))

\* the reserve a pool holds of one of its two tokens
ReserveOf(pool, token) ==
    IF pool.token_a = token THEN pool.reserve_a ELSE pool.reserve_b

\* the pool connects exactly these two tokens
ConnectsPair(pool, t1, t2) == {pool.token_a, pool.token_b} = {t1, t2}

\* the spot rate of the pool in the trade direction: reserve of 'to' divided
\* by reserve of 'from'
SpotRate(pool, from, to) == DDiv(ReserveOf(pool, to), ReserveOf(pool, from))

\* C24: _find_best_pool returns a pool that connects exactly the two tokens and
\* whose spot rate in the trade direction is maximal among the pools connecting
\* the pair, the first such pool in list order on ties; it returns None if and
\* only if no pool with a positive rate connects the pair; and the swap on the
\* returned pool uses the reserve of the 'from' token as input reserve.
C24_BestPoolIsFirstOfMaximalRate ==
    tri_pc = "analyzed" =>
        \A c \in 1..Len(best_pool_calls) :
            /\ ~best_pool_calls[c].raised
            /\ best_pool_calls[c].best_pool # 0 =>
                  /\ ConnectsPair(tri_pools[best_pool_calls[c].best_pool],
                                  best_pool_calls[c].from_token,
                                  best_pool_calls[c].to_token)
                  /\ \A j \in 1..Len(tri_pools) :
                        ConnectsPair(tri_pools[j], best_pool_calls[c].from_token,
                                     best_pool_calls[c].to_token) =>
                            /\ DLe(SpotRate(tri_pools[j],
                                            best_pool_calls[c].from_token,
                                            best_pool_calls[c].to_token),
                                   SpotRate(tri_pools[best_pool_calls[c].best_pool],
                                            best_pool_calls[c].from_token,
                                            best_pool_calls[c].to_token))
                            /\ j < best_pool_calls[c].best_pool =>
                                  DLt(SpotRate(tri_pools[j],
                                               best_pool_calls[c].from_token,
                                               best_pool_calls[c].to_token),
                                      SpotRate(tri_pools[best_pool_calls[c].best_pool],
                                               best_pool_calls[c].from_token,
                                               best_pool_calls[c].to_token))
                  /\ best_pool_calls[c].input_reserve =
                        ReserveOf(tri_pools[best_pool_calls[c].best_pool],
                                  best_pool_calls[c].from_token)
            /\ best_pool_calls[c].best_pool = 0 <=>
                  ~\E j \in 1..Len(tri_pools) :
                      /\ ConnectsPair(tri_pools[j], best_pool_calls[c].from_token,
                                      best_pool_calls[c].to_token)
                      /\ DGt(SpotRate(tri_pools[j], best_pool_calls[c].from_token,
                                      best_pool_calls[c].to_token), DZero)

(***************************************************************************)
(* SpecQuotes: _convert_to_pools and _find_direct_arbitrage on every quote *)
(* snapshot                                                                *)
(***************************************************************************)

\* most quotes of a snapshot
MaxQuotes == 2

\* a pair, a symbol without separator and one with two separators
QuoteSymbols == {<<"SOL", "USDC">>, <<"SOL">>, <<"SOL", "USDC", "RAY">>}

\* prices: none, and two that differ by more than 0.5 %
QuotePrices == {DZero, Dec(895, -1), Dec(91, 0)}

\* liquidities: none, a thin venue and two deep ones
QuoteLiquidities == {DZero, Dec(2, 2), Dec(8, 6), Dec(1, 7)}

\* the venues, in the order get_all_prices lists their quotes of a symbol
QuoteSources == <<"Raydium", "Orca", "Jupiter">>

\* the venue of the next quote of the k-th item (of a new item when k is 0)
NextSource(md, k) ==
    QuoteSources[IF k = 0 THEN 1 ELSE Len(md[k].price_list) + 1]

\* the number of quotes of a snapshot
QuoteCount(md) == Len(FlattenMarketData(md))

QuoteInit ==
    /\ quote_pc = "build"
    /\ market_data = <<>>
    /\ convert_result = <<>>
    /\ direct_result = <<>>

\* one more quote in the snapshot: of a new symbol, or of the next venue for a
\* symbol already quoted
QuoteAdd ==
    /\ quote_pc = "build"
    /\ QuoteCount(market_data) < MaxQuotes
    /\ \E symbol \in QuoteSymbols, price \in QuotePrices,
          liquidity \in QuoteLiquidities :
         /\ ItemIndex(market_data, symbol) # 0 =>
               Len(market_data[ItemIndex(market_data, symbol)].price_list)
                   < Len(QuoteSources)
         /\ market_data' =
               AddQuote(market_data,
                        PriceData(symbol, price, liquidity,
                                  NextSource(market_data,
                                             ItemIndex(market_data, symbol))),
                        ItemIndex(market_data, symbol))
    /\ UNCHANGED <<quote_pc, convert_result, direct_result>>
    /\ UNCHANGED notQuoteVars

\* pools = self._convert_to_pools(market_data)
QuoteConvert ==
    /\ quote_pc = "build"
    /\ convert_result' = ConvertToPools(market_data)
    /\ quote_pc' = "converted"
    /\ UNCHANGED <<market_data, direct_result>>
    /\ UNCHANGED notQuoteVars

\* direct_routes = await self._find_direct_arbitrage(market_data)
QuoteDirect ==
    /\ quote_pc = "build"
    /\ direct_result' = FindDirectArbitrage(market_data)
    /\ quote_pc' = "direct"
    /\ UNCHANGED <<market_data, convert_result>>
    /\ UNCHANGED notQuoteVars

QuoteNext == QuoteAdd \/ QuoteConvert \/ QuoteDirect

SpecQuotesInit ==
    QuoteInit /\ RankIdle /\ PathsIdle /\ SwapIdle /\ TriIdle /\ FetchIdle /\ ScanIdle
        /\ TxIdle /\ StartIdle

SpecQuotes == SpecQuotesInit /\ [][QuoteNext]_vars

\* the amount lies within both limits
WithinLimits(amount, limit_low, limit_high) ==
    DLe(amount, limit_low) /\ DLe(amount, limit_high)

\* the amount is the smaller limit when both limits reach 100, and 100 otherwise
SmallerLimitOrFloor(amount, limit_low, limit_high) ==
    IF DGe(limit_low, Dec(100, 0)) /\ DGe(limit_high, Dec(100, 0))
    THEN /\ WithinLimits(amount, limit_low, limit_high)
         /\ amount \in {limit_low, limit_high}
    ELSE amount = Dec(100, 0)

\* C5 as stated: the amount returned by _calculate_optimal_direct_amount exceeds
\* neither low.liquidity / (4 * low.price) nor high.liquidity / (4 * high.price).
C5_AmountWithinBothLimits ==
    (quote_pc = "direct" /\ ~direct_result.raised) =>
        \A c \in 1..Len(direct_result.calls) :
            WithinLimits(direct_result.calls[c].amount,
                         MaxAmount(direct_result.calls[c].low),
                         MaxAmount(direct_result.calls[c].high))

\* C5 amended: the amount returned is the smaller of the two limits, and so
\* exceeds neither, when both limits are at least 100; when one of them is below
\* 100 the amount is 100.
C5_AmountWithinBothLimitsOrFloor ==
    (quote_pc = "direct" /\ ~direct_result.raised) =>
        \A c \in 1..Len(direct_result.calls) :
            SmallerLimitOrFloor(direct_result.calls[c].amount,
                                MaxAmount(direct_result.calls[c].low),
                                MaxAmount(direct_result.calls[c].high))

\* C5 witness: an amount was computed from two different limits of 100 or more
C5_Witness ==
    /\ quote_pc = "direct"
    /\ ~direct_result.raised
    /\ \E c \in 1..Len(direct_result.calls) :
          /\ DGe(MaxAmount(direct_result.calls[c].low), Dec(100, 0))
          /\ DGt(MaxAmount(direct_result.calls[c].high),
                 MaxAmount(direct_result.calls[c].low))

\* '/' in symbol
HasSeparator(q) == Len(q.symbol) >= 2

\* the quotes a pool is built for, in the order of their pools
PoolQuotes(md) == SelectSeq(FlattenMarketData(md), HasSeparator)

RoutesOfSymbol(rs, symbol) ==
    {r \in 1..Len(rs) : rs[r].type = "direct" /\ rs[r].pair = symbol}

\* the symbol has two quotes or more, a percentage delta above 0.5 and, for the
\* amount chosen by _calculate_optimal_direct_amount, a profit
\* amount * (highest - lowest) - 2 * hop_cost above min_profit_threshold
DirectCandidate(lowest, highest) ==
    /\ DGt(PercentageDiff(lowest, highest), Dec(5, -1))
    /\ DGt(DSub(DMul(CalculateOptimalDirectAmount(lowest, highest),
                     DSub(highest.price, lowest.price)),
                DMul(Dec(2, 0), gas_price_estimate)),
           min_profit_threshold)

\* C13: for every quote snapshot _find_direct_arbitrage emits at most one
\* direct candidate per symbol, and emits one exactly when the symbol has two
\* quotes or more, its percentage delta is strictly greater than 0.5 and
\* amount * (highest - lowest) - 2 * hop_cost exceeds min_profit_threshold; the
\* path of the candidate is [source of the lowest quote, source of the highest].
C13_OneDirectCandidatePerQualifyingSymbol ==
    quote_pc = "direct" =>
        /\ ~direct_result.raised
        /\ \A k \in 1..Len(market_data) :
              /\ Cardinality(RoutesOfSymbol(direct_result.routes,
                                            market_data[k].symbol)) <= 1
              /\ RoutesOfSymbol(direct_result.routes, market_data[k].symbol) # {}
                    <=> /\ Len(market_data[k].price_list) >= 2
                        /\ DirectCandidate(
                               SortByPrice(market_data[k].price_list)[1],
                               SortByPrice(market_data[k].price_list)[
                                   Len(market_data[k].price_list)])
              /\ \A r \in RoutesOfSymbol(direct_result.routes, market_data[k].symbol) :
                    direct_result.routes[r].path =
                        <<SortByPrice(market_data[k].price_list)[1].source,
                          SortByPrice(market_data[k].price_list)[
                              Len(market_data[k].price_list)].source>>

\* every quote of the snapshot has a price above 0
AllPricesPositive(md) ==
    \A i \in 1..Len(FlattenMarketData(md)) :
        DGt(FlattenMarketData(md)[i].price_data.price, DZero)

\* the symbol parses into exactly two token identifiers
TwoTokens(q) == Len(q.symbol) = 2

\* C17: _convert_to_pools yields exactly one pool per quote whose symbol parses
\* into exactly two tokens; for a symbol without separator or with more than
\* one it yields no pool, and the conversion of the other quotes completes
\* without raising.  (Stated for snapshots of positive prices, where no
\* division can raise.)
C17_OnePoolPerTwoTokenSymbol ==
    (quote_pc = "converted" /\ AllPricesPositive(market_data)) =>
        /\ ~convert_result.raised
        /\ Len(convert_result.pools) =
              Len(SelectSeq(FlattenMarketData(market_data), TwoTokens))
        /\ \A i \in 1..Len(convert_result.pools) :
              /\ convert_result.pools[i].token_a =
                    SelectSeq(FlattenMarketData(market_data), TwoTokens)[i].symbol[1]
              /\ convert_result.pools[i].token_b =
                    SelectSeq(FlattenMarketData(market_data), TwoTokens)[i].symbol[2]

\* the quotes of the symbol of a direct route: the lowest and the highest
LowQuote(md, route) == SortByPrice(md[ItemIndex(md, route.pair)].price_list)[1]

HighQuote(md, route) ==
    SortByPrice(md[ItemIndex(md, route.pair)].price_list)[
        Len(md[ItemIndex(md, route.pair)].price_list)]

\* liquidity / (4 * price)
QuarterOfLiquidity(q) == DDiv(q.liquidity, DMul(Dec(4, 0), q.price))

\* max(100, min(low.liquidity / (4 * low.price), high.liquidity / (4 * high.price)))
FlooredAmount(low, high) ==
    DMax(Dec(100, 0), DMin(QuarterOfLiquidity(low), QuarterOfLiquidity(high)))

\* C23: for every direct candidate emitted, amount = max(100, min(low.liquidity
\* / (4 * low.price), high.liquidity / (4 * high.price))), so amount >= 100;
\* profit = amount * (high.price - low.price) - 2 * gas_price_estimate; and
\* gas_estimate = 2 * gas_price_estimate.
C23_DirectAmountProfitAndGas ==
    (quote_pc = "direct" /\ ~direct_result.raised) =>
        \A r \in 1..Len(direct_result.routes) :
            /\ direct_result.routes[r].amount =
                  FlooredAmount(LowQuote(market_data, direct_result.routes[r]),
                                HighQuote(market_data, direct_result.routes[r]))
            /\ DGe(direct_result.routes[r].amount, Dec(100, 0))
            /\ direct_result.routes[r].profit =
                  DSub(DMul(direct_result.routes[r].amount,
                            DSub(HighQuote(market_data, direct_result.routes[r]).price,
                                 LowQuote(market_data, direct_result.routes[r]).price)),
                       DMul(Dec(2, 0), gas_price_estimate))
            /\ direct_result.routes[r].gas_estimate =
                  DMul(Dec(2, 0), gas_price_estimate)

\* C23 witness: a direct candidate was emitted whose amount is above the floor
\* and is the smaller of two different limits
C23_Witness ==
    /\ quote_pc = "direct"
    /\ ~direct_result.raised
    /\ \E r \in 1..Len(direct_result.routes) :
          /\ DGt(direct_result.routes[r].amount, Dec(100, 0))
          /\ QuarterOfLiquidity(LowQuote(market_data, direct_result.routes[r])) #
                QuarterOfLiquidity(HighQuote(market_data, direct_result.routes[r]))

(***************************************************************************)
(* SpecFetch: get_all_prices with its three venue fetches running          *)
(* concurrently, for every response of the venues                          *)
(***************************************************************************)

Pending == [kind |-> "pending", prices |-> <<>>]

\* data['official'] of the Raydium response: the symbols of the pools listed
RaydiumOfficial ==
    {<<(<<"SOL", "USDC">>)>>, <<(<<"SOL", "USDC">>), (<<"RAY", "USDC">>)>>,
     <<(<<"SOL", "USD">>), (<<"SOL", "USDC">>), (<<"SOL", "USD">>)>>,
     <<(<<"SOL", "USD">>), (<<"SOL", "USDC">>), (<<"RAY", "SOL">>)>>}

\* data['data'] of the Jupiter response: SOL without a price, or with a price
\* that is zero, negative or positive (1, 1.001 and 1.002 are the placeholder
\* price of Raydium and the prices 0.1 % and 0.2 % above it)
JupiterData ==
    {<<[token_id |-> "SOL", price_info |-> price_info]>> :
        price_info \in {PriceInfo(FALSE, Dec(0, 0)), PriceInfo(TRUE, Dec(0, 0)),
                        PriceInfo(TRUE, Dec(-15, -1)), PriceInfo(TRUE, Dec(91, 0)),
                        PriceInfo(TRUE, Dec(1, 0)), PriceInfo(TRUE, Dec(1001, -3)),
                        PriceInfo(TRUE, Dec(1002, -3))}}

\* a fetch returns the prices of the response, returns {} after a failed request
\* or an exception caught, or ends with an exception
RaydiumOutcomes ==
    {Returned(RaydiumPrices(official)) : official \in RaydiumOfficial}
        \cup {Returned(<<>>), Raised}

\* the mock data leave nothing to fail; the task may still end with an exception
OrcaOutcomes == {Returned(OrcaPrices), Raised}

JupiterOutcomes ==
    {Returned(JupiterPrices(data)) : data \in JupiterData}
        \cup {Returned(<<>>), Raised}

FetchInit ==
    /\ fetch_pc = "gather"
    /\ task_results = <<Pending, Pending, Pending>>
    /\ completion_order = <<>>
    /\ prices_result = <<>>
    /\ differences_result = <<>>

\* self.fetch_raydium_prices() completes: task 1 of gather has its result
FetchRaydiumPrices ==
    /\ fetch_pc = "gather"
    /\ task_results[1] = Pending
    /\ \E outcome \in RaydiumOutcomes :
         task_results' = [task_results EXCEPT ![1] = outcome]
    /\ completion_order' = Append(completion_order, 1)
    /\ UNCHANGED <<fetch_pc, prices_result, differences_result>>
    /\ UNCHANGED notFetchVars

\* self.fetch_orca_prices() completes: task 2 of gather has its result
FetchOrcaPrices ==
    /\ fetch_pc = "gather"
    /\ task_results[2] = Pending
    /\ \E outcome \in OrcaOutcomes :
         task_results' = [task_results EXCEPT ![2] = outcome]
    /\ completion_order' = Append(completion_order, 2)
    /\ UNCHANGED <<fetch_pc, prices_result, differences_result>>
    /\ UNCHANGED notFetchVars

\* self.fetch_jupiter_prices() completes: task 3 of gather has its result
FetchJupiterPrices ==
    /\ fetch_pc = "gather"
    /\ task_results[3] = Pending
    /\ \E outcome \in JupiterOutcomes :
         task_results' = [task_results EXCEPT ![3] = outcome]
    /\ completion_order' = Append(completion_order, 3)
    /\ UNCHANGED <<fetch_pc, prices_result, differences_result>>
    /\ UNCHANGED notFetchVars

\* every task is done: gather hands over the results, get_all_prices combines
\* them and returns
GetAllPricesReturn ==
    /\ fetch_pc = "gather"
    /\ \A t \in 1..Len(task_results) : task_results[t] # Pending
    /\ prices_result' = GetAllPrices(ResultsOfGather(task_results, completion_order))
    /\ fetch_pc' = "returned"
    /\ UNCHANGED <<task_results, completion_order, differences_result>>
    /\ UNCHANGED notFetchVars

\* get_price_differences goes on with the mapping its await handed back: the
\* loop over the symbols and the sort
PriceDifferencesReturn ==
    /\ fetch_pc = "returned"
    /\ differences_result' = GetPriceDifferences(prices_result)
    /\ fetch_pc' = "differences"
    /\ UNCHANGED <<task_results, completion_order, prices_result>>
    /\ UNCHANGED notFetchVars

FetchNext ==
    \/ FetchRaydiumPrices
    \/ FetchOrcaPrices
    \/ FetchJupiterPrices
    \/ GetAllPricesReturn
    \/ PriceDifferencesReturn

SpecFetchInit ==
    FetchInit /\ RankIdle /\ PathsIdle /\ SwapIdle /\ TriIdle /\ QuoteIdle /\ ScanIdle
        /\ TxIdle /\ StartIdle

SpecFetch == SpecFetchInit /\ [][FetchNext]_vars

\* the quote is in the list of its symbol
Listed(all, price_data) ==
    \E k \in 1..Len(all) :
        /\ all[k].symbol = price_data.symbol
        /\ \E j \in 1..Len(all[k].price_list) : all[k].price_list[j] = price_data

\* the quote was returned by a task that did not fail
FromReturnedTask(results, price_data) ==
    \E t \in 1..Len(results) :
        /\ IsDict(results[t])
        /\ \E i \in 1..Len(results[t].prices) : results[t].prices[i] = price_data

\* C7: whichever fetches fail or raise and in whatever order the fetches
\* complete, get_all_prices returns without raising, its result holds every quote
\* returned by a venue, and a venue that failed or raised contributes none.
C7_VenueFailuresAreIsolated ==
    fetch_pc = "returned" =>
        /\ ~prices_result.raised
        /\ \A t \in 1..Len(task_results) :
              \A i \in 1..Len(task_results[t].prices) :
                  Listed(prices_result.all_prices, task_results[t].prices[i])
        /\ \A k \in 1..Len(prices_result.all_prices) :
              \A j \in 1..Len(prices_result.all_prices[k].price_list) :
                  FromReturnedTask(task_results,
                                   prices_result.all_prices[k].price_list[j])

\* C7 witness: get_all_prices returned the quotes of one venue although another
\* raised and the third returned nothing, the venue with the quotes completing last
C7_Witness ==
    /\ fetch_pc = "returned"
    /\ \E t \in 1..3 : task_results[t] = Raised
    /\ \E t \in 1..3 : task_results[t] = Returned(<<>>)
    /\ \E t \in 1..3 :
          /\ task_results[t].prices # <<>>
          /\ completion_order[3] = t
          /\ \A i \in 1..Len(task_results[t].prices) :
                Listed(prices_result.all_prices, task_results[t].prices[i])
    /\ completion_order # <<1, 2, 3>>

\* C8: no quote with price <= 0 or liquidity < 0 appears in the mapping returned
\* by get_all_prices, whatever the venues report.
C8_NoInvalidQuoteAggregated ==
    (fetch_pc = "returned" /\ ~prices_result.raised) =>
        \A k \in 1..Len(prices_result.all_prices) :
            \A j \in 1..Len(prices_result.all_prices[k].price_list) :
                /\ DGt(prices_result.all_prices[k].price_list[j].price, DZero)
                /\ DGe(prices_result.all_prices[k].price_list[j].liquidity, DZero)

\* the venue of the result returned a quote of the symbol
Quoted(result, symbol) ==
    IsDict(result) /\ ItemIndex(result.prices, symbol) # 0

\* the successfully fetched venues that quoted the symbol
VenuesQuoting(results, symbol) ==
    {t \in 1..Len(results) : Quoted(results[t], symbol)}

\* the quotes of the symbol from the venues that returned it, from venue t on:
\* Raydium's, then Orca's, then Jupiter's
RECURSIVE QuotesInVenueOrder(_, _, _)
QuotesInVenueOrder(results, symbol, t) ==
    IF t > Len(results) THEN <<>>
    ELSE (IF Quoted(results[t], symbol)
          THEN <<results[t].prices[ItemIndex(results[t].prices, symbol)]>>
          ELSE <<>>)
         \o QuotesInVenueOrder(results, symbol, t + 1)

C12_OneQuotePerVenueThatQuoted ==
    fetch_pc = "returned" =>
        /\ ~prices_result.raised
        /\ \A k1, k2 \in 1..Len(prices_result.all_prices) :
              prices_result.all_prices[k1].symbol = prices_result.all_prices[k2].symbol
                 => k1 = k2
        /\ \A t \in 1..Len(task_results) :
              \A i \in 1..Len(task_results[t].prices) :
                  ItemIndex(prices_result.all_prices,
                            task_results[t].prices[i].symbol) # 0
        /\ \A k \in 1..Len(prices_result.all_prices) :
              /\ prices_result.all_prices[k].price_list # <<>>
              /\ Len(prices_result.all_prices[k].price_list) =
                    Cardinality(VenuesQuoting(task_results,
                                              prices_result.all_prices[k].symbol))
              /\ \A t \in VenuesQuoting(task_results,
                                         prices_result.all_prices[k].symbol) :
                    Cardinality(
                        {j \in 1..Len(prices_result.all_prices[k].price_list) :
                            prices_result.all_prices[k].price_list[j] =
                                task_results[t].prices[
                                    ItemIndex(task_results[t].prices,
                                              prices_result.all_prices[k].symbol)]})
                        = 1

\* C12 witness: Raydium listed SOL/USD twice and SOL/USDC, Orca raised and
\* Jupiter quoted SOL/USD: the mapping returned has two keys, SOL/USD with the
\* two quotes of Raydium and Jupiter and SOL/USDC with the one of Raydium
C12_Witness ==
    /\ fetch_pc = "returned"
    /\ Len(task_results[1].prices) = 2
    /\ task_results[1].prices[1].symbol = <<"SOL", "USD">>
    /\ task_results[2] = Raised
    /\ Len(task_results[3].prices) = 1
    /\ Len(prices_result.all_prices) = 2
    /\ Len(prices_result.all_prices[1].price_list) = 2
    /\ Len(prices_result.all_prices[2].price_list) = 1

\* the lowest and the highest price of a list of quotes
LowestPrice(price_list) ==
    CHOOSE p \in {price_list[j].price : j \in 1..Len(price_list)} :
        \A j \in 1..Len(price_list) : DLe(p, price_list[j].price)

HighestPrice(price_list) ==
    CHOOSE p \in {price_list[j].price : j \in 1..Len(price_list)} :
        \A j \in 1..Len(price_list) : DGe(p, price_list[j].price)

\* (highest - lowest) / lowest * 100
PercentageDelta(price_list) ==
    DMul(DDiv(DSub(HighestPrice(price_list), LowestPrice(price_list)),
              LowestPrice(price_list)),
         Dec(100, 0))

\* the sources of the quotes of a price
SourcesAt(price_list, price) ==
    {price_list[j].source : j \in {i \in 1..Len(price_list) : price_list[i].price = price}}

\* the symbols get_price_differences has to list: two quotes or more and a
\* percentage delta above 0.1
DeltaAboveTenth(item) ==
    /\ Len(item.price_list) >= 2
    /\ DGt(PercentageDelta(item.price_list), Dec(1, -1))

\* C11: get_price_differences returns a list of exactly the symbols that have
\* at least two quotes and a percentage delta (highest - lowest) / lowest * 100
\* strictly greater than 0.1, each once, with buy_from the source of the lowest
\* quote and sell_to the source of the highest, in non-increasing order of the
\* percentage; a symbol whose quotes all have the same price is not listed.
C11_ListsExactlyDeltasAboveTenth ==
    fetch_pc = "differences" =>
        /\ ~differences_result.raised
        /\ \A k \in 1..Len(prices_result.all_prices) :
              DeltaAboveTenth(prices_result.all_prices[k])
                 <=> ItemIndex(differences_result.differences,
                               prices_result.all_prices[k].symbol) # 0
        /\ \A d1, d2 \in 1..Len(differences_result.differences) :
              differences_result.differences[d1].symbol =
                  differences_result.differences[d2].symbol => d1 = d2
        /\ \A d \in 1..Len(differences_result.differences) :
              /\ ItemIndex(prices_result.all_prices,
                           differences_result.differences[d].symbol) # 0
              /\ differences_result.differences[d].lowest_price #
                    differences_result.differences[d].highest_price
              /\ differences_result.differences[d].percentage =
                    PercentageDelta(
                        prices_result.all_prices[
                            ItemIndex(prices_result.all_prices,
                                      differences_result.differences[d].symbol)
                        ].price_list)
              /\ differences_result.differences[d].buy_from \in
                    SourcesAt(prices_result.all_prices[
                                  ItemIndex(prices_result.all_prices,
                                            differences_result.differences[d].symbol)
                              ].price_list,
                              differences_result.differences[d].lowest_price)
              /\ differences_result.differences[d].sell_to \in
                    SourcesAt(prices_result.all_prices[
                                  ItemIndex(prices_result.all_prices,
                                            differences_result.differences[d].symbol)
                              ].price_list,
                              differences_result.differences[d].highest_price)
        /\ \A d \in 1..(Len(differences_result.differences) - 1) :
              DGe(differences_result.differences[d].percentage,
                  differences_result.differences[d + 1].percentage)

(***************************************************************************)
(* SpecScan: ArbBot.run_cycle, cycle after cycle, on every mapping that    *)
(* get_all_prices may hand to find_profitable_routes                       *)
(***************************************************************************)

\* most quotes of a snapshot
MaxScanQuotes == 3

\* most cycles of a run
MaxScans == 2

\* price and liquidity of a quote: no price, no liquidity, a deep venue at 1,
\* a deep venue 5 % above it and a thin venue at 2
ScanQuotes ==
    {[price |-> DZero, liquidity |-> Dec(3, 6)],
     [price |-> Dec(1, 0), liquidity |-> DZero],
     [price |-> Dec(1, 0), liquidity |-> Dec(2, 6)],
     [price |-> Dec(105, -2), liquidity |-> Dec(2, 6)],
     [price |-> Dec(2, 0), liquidity |-> Dec(4, 3)]}

\* ArbitrageOptimizer.__init__
NewOptimizer ==
    [min_profit_threshold |-> min_profit_threshold,
     max_slippage |-> max_slippage,
     gas_price_estimate |-> gas_price_estimate]

\* find_profitable_routes and the methods it calls assign no attribute of self
OptimizerAfterScan(o) == o

\* ArbitrageOpportunity(token_pair, borrow_amount, expected_profit, confidence,
\* route, estimated_gas) of a route
Opportunity(route) ==
    [token_pair |-> route.pair, borrow_amount |-> route.amount,
     expected_profit |-> route.profit, confidence |-> route.confidence,
     route |-> route.path, estimated_gas |-> route.gas_estimate]

\* scan_opportunities: one opportunity per route, in the order of the routes
Opportunities(rs) == [i \in 1..Len(rs) |-> Opportunity(rs[i])]

\* one step of opportunities.sort(key=expected_profit, reverse=True): stable
RECURSIVE InsertByExpectedProfit(_, _)
InsertByExpectedProfit(sorted, o) ==
    IF sorted = <<>> THEN <<o>>
    ELSE IF DGe(Head(sorted).expected_profit, o.expected_profit)
         THEN <<Head(sorted)>> \o InsertByExpectedProfit(Tail(sorted), o)
         ELSE <<o>> \o sorted

RECURSIVE SortByExpectedProfitDesc(_)
SortByExpectedProfitDesc(os) ==
    IF os = <<>> THEN <<>>
    ELSE InsertByExpectedProfit(SortByExpectedProfitDesc(SubSeq(os, 1, Len(os) - 1)),
                                os[Len(os)])

\* the last opportunity of the sorted list
LeastOpportunity(os) == SortByExpectedProfitDesc(os)[Len(os)]

\* best_opportunity = opportunities[0], after the sort
BestOpportunity(os) == SortByExpectedProfitDesc(os)[1]

\* how run_cycle goes on after scan_opportunities: an exception is caught and
\* logged, an empty list makes it return, anything else is executed
AfterScan(result) ==
    IF result.raised THEN "error"
    ELSE IF result.routes = <<>> THEN "no_opportunities"
    ELSE "execute"

ScanInit ==
    /\ scan_pc = "idle"
    /\ optimizer = NewOptimizer
    /\ token_order \in IterationOrders(Tokens)
    /\ snapshot = <<>>
    /\ scan_count = 0
    /\ last_candidates = <<>>
    /\ scan_market_data = <<>>
    /\ market_data_after = <<>>
    /\ scan_result = <<>>
    /\ fresh_result = <<>>
    /\ opportunities = <<>>
    /\ execute_calls = <<>>
    /\ earlier_opportunities = {}
    /\ cycle_end = "none"

\* one more quote in the mapping of the next cycle: of a new symbol, or of the
\* next venue for a symbol already quoted; the symbols come in the order of
\* TriSymbols
ScanAddQuote ==
    /\ scan_pc = "idle"
    /\ QuoteCount(snapshot) < MaxScanQuotes
    /\ \E k \in 1..Len(TriSymbols), q \in ScanQuotes :
         /\ \A j \in (k + 1)..Len(TriSymbols) : ItemIndex(snapshot, TriSymbols[j]) = 0
         /\ ItemIndex(snapshot, TriSymbols[k]) # 0 =>
               Len(snapshot[ItemIndex(snapshot, TriSymbols[k])].price_list)
                   < Len(QuoteSources)
         /\ snapshot' =
               AddQuote(snapshot,
                        PriceData(TriSymbols[k], q.price, q.liquidity,
                                  NextSource(snapshot,
                                             ItemIndex(snapshot, TriSymbols[k]))),
                        ItemIndex(snapshot, TriSymbols[k]))
    /\ UNCHANGED <<scan_pc, optimizer, token_order, scan_count, last_candidates,
                   scan_market_data, market_data_after, scan_result, fresh_result,
                   opportunities, execute_calls, earlier_opportunities,
                   cycle_end>>
    /\ UNCHANGED notScanVars

\* run_cycle up to the choice of the best opportunity: scan_opportunities
\* calls find_profitable_routes on the mapping and wraps the routes; an
\* exception or an empty list ends the cycle
RunCycleScan ==
    /\ scan_pc = "idle"
    /\ scan_count < MaxScans
    /\ scan_count' = scan_count + 1
    /\ scan_market_data' = snapshot
    /\ market_data_after' = MarketDataAfterScan(snapshot)
    /\ scan_result' = FindProfitableRoutes(snapshot, token_order, last_candidates)
    /\ last_candidates' = scan_result'.candidates
    /\ fresh_result' = FindProfitableRoutes(snapshot, token_order, <<>>)
    /\ optimizer' = OptimizerAfterScan(optimizer)
    /\ opportunities' = Opportunities(scan_result'.routes)
    /\ execute_calls' = <<>>
    /\ cycle_end' = (IF AfterScan(scan_result') = "execute" THEN "running"
                     ELSE AfterScan(scan_result'))
    /\ scan_pc' = (IF AfterScan(scan_result') = "execute" THEN "execute"
                   ELSE "ended")
    /\ UNCHANGED <<token_order, snapshot, earlier_opportunities>>
    /\ UNCHANGED notScanVars

\* await self.execute_arbitrage(best_opportunity): it returns True or False (an
\* exception of the transaction manager is caught and gives False); run_cycle
\* does not look at the value and ends
ExecuteArbitrage ==
    /\ scan_pc = "execute"
    /\ execute_calls' = Append(execute_calls, BestOpportunity(opportunities))
    /\ cycle_end' = "executed"
    /\ scan_pc' = "ended"
    /\ UNCHANGED <<optimizer, token_order, snapshot, scan_count, last_candidates,
                   scan_market_data, market_data_after, scan_result, fresh_result,
                   opportunities, earlier_opportunities>>
    /\ UNCHANGED notScanVars

\* start: await asyncio.sleep(5) and the next turn of the loop; the locals of
\* the cycle that ended are gone, the venues are asked again and may quote
\* what they quoted before and more
NextCycle ==
    /\ scan_pc = "ended"
    /\ scan_count < MaxScans
    /\ scan_pc' = "idle"
    /\ scan_market_data' = <<>>
    /\ market_data_after' = <<>>
    /\ scan_result' = <<>>
    /\ fresh_result' = <<>>
    /\ opportunities' = <<>>
    /\ execute_calls' = <<>>
    /\ earlier_opportunities' =
          earlier_opportunities \cup {opportunities[k] : k \in 1..Len(opportunities)}
    /\ cycle_end' = "none"
    /\ UNCHANGED <<optimizer, token_order, snapshot, scan_count, last_candidates>>
    /\ UNCHANGED notScanVars

ScanNext == ScanAddQuote \/ RunCycleScan \/ ExecuteArbitrage \/ NextCycle

SpecScanInit ==
    ScanInit /\ RankIdle /\ PathsIdle /\ SwapIdle /\ TriIdle /\ QuoteIdle /\ FetchIdle
        /\ TxIdle /\ StartIdle

SpecScan == SpecScanInit /\ [][ScanNext]_vars

\* find_profitable_routes has been called in this cycle and is through
ScanDone == scan_pc \in {"execute", "ended"}

VenuesOf(md) ==
    {FlattenMarketData(md)[i].price_data.source :
        i \in 1..Len(FlattenMarketData(md))}

\* C16: for the empty mapping and for every mapping in which some or all
\* venues are missing, find_profitable_routes returns without raising; a
\* run_cycle whose scan yields an empty list makes no execute_arbitrage call
\* and ends normally.
C16_PartialMappingsAreScanned ==
    ScanDone =>
        /\ VenuesOf(scan_market_data) # {"Raydium", "Orca", "Jupiter"}
              => ~scan_result.raised
        /\ (~scan_result.raised /\ scan_result.routes = <<>>)
              => /\ scan_pc = "ended"
                 /\ execute_calls = <<>>
                 /\ cycle_end = "no_opportunities"

\* every quote of the snapshot has a liquidity of 0 or more
AllLiquiditiesNonNegative(md) ==
    \A i \in 1..Len(FlattenMarketData(md)) :
        DGe(FlattenMarketData(md)[i].price_data.liquidity, DZero)

\* C18: for every snapshot whose quotes all have price > 0 and liquidity >= 0,
\* zero liquidity included, find_profitable_routes never divides by zero (in
\* the reserves, in the rate of _find_best_pool, in the swap, in the
\* percentage delta): no division raises.
C18_NoDivisionByZero ==
    (/\ ScanDone
     /\ AllPricesPositive(scan_market_data)
     /\ AllLiquiditiesNonNegative(scan_market_data)) =>
        ~scan_result.raised

\* C19: every route returned by find_profitable_routes has a path of length 2
\* when its type is 'direct', and of length 4 with the first element equal to
\* the last when its type is 'triangular'.
C19_PathShapeByType ==
    (ScanDone /\ ~scan_result.raised) =>
        \A r \in 1..Len(scan_result.routes) :
            /\ scan_result.routes[r].type \in {"direct", "triangular"}
            /\ scan_result.routes[r].type = "direct"
                  => Len(scan_result.routes[r].path) = 2
            /\ scan_result.routes[r].type = "triangular"
                  => /\ Len(scan_result.routes[r].path) = 4
                     /\ scan_result.routes[r].path[1] = scan_result.routes[r].path[4]

\* C19 witness: a triangular route was returned
C19_Witness ==
    /\ ScanDone
    /\ ~scan_result.raised
    /\ \E r \in 1..Len(scan_result.routes) :
          /\ scan_result.routes[r].type = "triangular"
          /\ scan_result.routes[r].path[2] # scan_result.routes[r].path[3]
          /\ scan_result.routes[r].path[1] = scan_result.routes[r].path[4]

\* C20: for every snapshot whose quotes have price > 0 and liquidity >= 0, every
\* route returned has a confidence within [0, 1], and the confidence of a
\* direct route equals min(0.95, percentage_delta / 10).
C20_ConfidenceWithinUnitInterval ==
    (/\ ScanDone
     /\ ~scan_result.raised
     /\ AllPricesPositive(scan_market_data)
     /\ AllLiquiditiesNonNegative(scan_market_data)) =>
        \A r \in 1..Len(scan_result.routes) :
            /\ DGe(scan_result.routes[r].confidence, DZero)
            /\ DLe(scan_result.routes[r].confidence, Dec(1, 0))
            /\ scan_result.routes[r].type = "direct"
                  => scan_result.routes[r].confidence =
                        DMin(Dec(95, -2),
                             DDiv(PercentageDelta(
                                      scan_market_data[
                                          ItemIndex(scan_market_data,
                                                    scan_result.routes[r].pair)
                                      ].price_list),
                                  Dec(10, 0)))

\* C20 witness: a direct route was returned whose confidence is below the cap
\* of 0.95
C20_Witness ==
    /\ ScanDone
    /\ ~scan_result.raised
    /\ AllPricesPositive(scan_market_data)
    /\ \E r \in 1..Len(scan_result.routes) :
          /\ scan_result.routes[r].type = "direct"
          /\ DLt(scan_result.routes[r].confidence, Dec(95, -2))
          /\ DGt(scan_result.routes[r].confidence, DZero)

\* the pools _convert_to_pools built from the mapping of the call
PoolsBuilt == ConvertToPools(scan_market_data).pools

\* the candidate is the one a first evaluation of its path on the pools as
\* built produces
EvaluatedAlone(route) ==
    <<route>> = TriangularRoutesOf(route.path,
                                   AnalyzeTriangularProfit(route.path, PoolsBuilt))

C28_ExecutesOnceTheBestOfThisScan ==
    /\ Len(execute_calls) <= 1
    /\ execute_calls # <<>> =>
          /\ scan_pc = "ended"
          /\ cycle_end = "executed"
          /\ scan_result # <<>>
          /\ ~scan_result.raised
          /\ opportunities = Opportunities(scan_result.routes)
          /\ scan_result.routes = fresh_result.routes
          /\ \E k \in 1..Len(opportunities) : opportunities[k] = execute_calls[1]
          /\ \A k \in 1..Len(opportunities) :
                DGe(execute_calls[1].expected_profit, opportunities[k].expected_profit)
          /\ execute_calls[1] \in earlier_opportunities =>
                \E k \in 1..Len(opportunities) : opportunities[k] = execute_calls[1]

\* C28 witness: the second cycle executed an opportunity of its own scan,
\* while the scan of the first cycle had returned an opportunity of greater
\* expected_profit that the second scan did not return
C28_Witness ==
    /\ scan_pc = "ended"
    /\ scan_count = 2
    /\ Len(execute_calls) = 1
    /\ \E o \in earlier_opportunities :
          /\ DGt(o.expected_profit, execute_calls[1].expected_profit)
          /\ \A k \in 1..Len(opportunities) : opportunities[k] # o

(***************************************************************************)
(* SpecTx: TransactionManager.execute_arbitrage, instruction by            *)
(* instruction, on every route and borrow amount                           *)
(***************************************************************************)

\* most elements of a route
MaxRouteLen == 4

\* what a route may name: two venues with a program of their own and a token,
\* as the routes of the optimizer do
RouteNames == {"orca", "serum", "SOL"}

\* borrow amounts: sweep amounts and amounts of six digits, as
\* _calculate_optimal_direct_amount returns
BorrowAmounts == {Dec(100, 0), Dec(1, 5), Dec(476190, 0), Dec(952381, 0)}

RoutesOfLen(n) == [1..n -> RouteNames]

TxRoutes == UNION {RoutesOfLen(n) : n \in 0..MaxRouteLen}

SolMint == "So11111111111111111111111111111111111111112"
UsdcMint == "EPjFWdd5AufqSSqeM2qN1xzybapC8G4wEGGkZwyTDt1v"

\* _get_lending_program_id: only 'solend' is asked for
LendingProgramId(protocol) ==
    IF protocol = "mango" THEN "mv3ekLzLbnVPNxjSKvqBpU3ZeZXPQdEC3bp5MDEBG68"
    ELSE IF protocol = "port" THEN "Port7uDYB3wk6GJAw4KT1WpTeMtSu9bTcChBHkX2LfR"
    ELSE "So1endDq2YkqhipRh3WViPa8hdiSpxWy6z3Z6tMCpAo"

\* _get_dex_program_id: the program of Raydium for a name it does not know
DexProgramId(dex) ==
    IF dex = "orca" THEN "9W959DqEETiGZocYWCQPaJ6sBmUzgfxXfqGeTEdp3aQP"
    ELSE IF dex = "serum" THEN "9xQeWvG816bUx9EPjHmaT23yvVM2ZWbrrpZb9PusVFin"
    ELSE "675kPX9MHTjS2zt1qfr1NYHuzeLXfQM9H24wFSUt1Mp8"

\* FlashLoanParams(amount=borrow_amount, token_mint=SOL, lending_protocol='solend')
FlashLoanParams(borrow_amount) ==
    [amount |-> borrow_amount, token_mint |-> SolMint, lending_protocol |-> "solend"]

\* SwapParams(input_mint=SOL, output_mint=USDC, amount, dex, slippage=0.01)
SwapParams(amount, dex) ==
    [input_mint |-> SolMint, output_mint |-> UsdcMint, amount |-> amount,
     dex |-> dex]

\* create_flash_loan_instruction: program and data of the instruction (the
\* accounts are the same three in every instruction of the kind); an amount
\* stands for the string str() makes of it
CreateFlashLoanInstruction(params) ==
    [program_id |-> LendingProgramId(params.lending_protocol),
     instruction_type |-> "borrow_flash_loan",
     amount |-> params.amount,
     token_mint |-> params.token_mint]

\* create_swap_instruction
CreateSwapInstruction(params) ==
    [program_id |-> DexProgramId(params.dex),
     instruction_type |-> "swap",
     amount_in |-> params.amount,
     minimum_amount_out |-> DMul(params.amount, Dec(99, -2)),
     input_mint |-> params.input_mint,
     output_mint |-> params.output_mint]

\* create_repay_instruction
CreateRepayInstruction(params, repay_amount) ==
    [program_id |-> LendingProgramId(params.lending_protocol),
     instruction_type |-> "repay_flash_loan",
     amount |-> repay_amount,
     token_mint |-> params.token_mint]

\* repay_amount = borrow_amount + (borrow_amount * Decimal('0.0001'))
RepayAmount(borrow_amount) ==
    DAdd(borrow_amount, DMul(borrow_amount, Dec(1, -4)))

\* the repayment placed before the swaps
RepayBeforeSwaps(borrow, swaps, repay) == <<borrow, repay>> \o swaps

\* [borrow_ix, *swap_instructions, repay_ix]
TransactionInstructions(borrow, swaps, repay) == <<borrow>> \o swaps \o <<repay>>

TxInit ==
    /\ tx_pc = "called"
    /\ tx_route \in TxRoutes
    /\ tx_borrow_amount \in BorrowAmounts
    /\ borrow_ix = <<>>
    /\ swap_instructions = <<>>
    /\ current_amount = <<>>
    /\ repay_ix = <<>>
    /\ sent_instructions = <<>>
    /\ tx_result = "none"

\* Step 1: borrow_ix = await self.create_flash_loan_instruction(...), then
\* swap_instructions = [] and current_amount = borrow_amount
TxCreateFlashLoan ==
    /\ tx_pc = "called"
    /\ borrow_ix' = CreateFlashLoanInstruction(FlashLoanParams(tx_borrow_amount))
    /\ swap_instructions' = <<>>
    /\ current_amount' = tx_borrow_amount
    /\ tx_pc' = "swaps"
    /\ UNCHANGED <<tx_route, tx_borrow_amount, repay_ix, sent_instructions, tx_result>>
    /\ UNCHANGED notTxVars

\* Step 2, one turn of for i in range(len(route) - 1): a swap of
\* current_amount on route[i], then current_amount * Decimal('1.02')
TxCreateSwap ==
    /\ tx_pc = "swaps"
    /\ Len(swap_instructions) < Len(tx_route) - 1
    /\ swap_instructions' =
          Append(swap_instructions,
                 CreateSwapInstruction(
                     SwapParams(current_amount,
                                tx_route[Len(swap_instructions) + 1])))
    /\ current_amount' = DMul(current_amount, Dec(102, -2))
    /\ UNCHANGED <<tx_pc, tx_route, tx_borrow_amount, borrow_ix, repay_ix,
                   sent_instructions, tx_result>>
    /\ UNCHANGED notTxVars

\* Step 3, once the loop is through: the repayment instruction
TxCreateRepay ==
    /\ tx_pc = "swaps"
    /\ Len(swap_instructions) >= Len(tx_route) - 1
    /\ repay_ix' = CreateRepayInstruction(FlashLoanParams(tx_borrow_amount),
                                          RepayAmount(tx_borrow_amount))
    /\ tx_pc' = "send"
    /\ UNCHANGED <<tx_route, tx_borrow_amount, borrow_ix, swap_instructions,
                   current_amount, sent_instructions, tx_result>>
    /\ UNCHANGED notTxVars

\* Step 4: _build_and_send_transaction takes the list, sleeps a second and
\* returns True; execute_arbitrage returns True
TxBuildAndSend ==
    /\ tx_pc = "send"
    /\ sent_instructions' =
          TransactionInstructions(borrow_ix, swap_instructions, repay_ix)
    /\ tx_result' = "True"
    /\ tx_pc' = "returned"
    /\ UNCHANGED <<tx_route, tx_borrow_amount, borrow_ix, swap_instructions,
                   current_amount, repay_ix>>
    /\ UNCHANGED notTxVars

TxNext == TxCreateFlashLoan \/ TxCreateSwap \/ TxCreateRepay \/ TxBuildAndSend

SpecTxInit ==
    TxInit /\ RankIdle /\ PathsIdle /\ SwapIdle /\ TriIdle /\ QuoteIdle /\ FetchIdle
        /\ ScanIdle /\ StartIdle

SpecTx == SpecTxInit /\ [][TxNext]_vars

\* 1.02^i, exactly
RECURSIVE GrowthFactor(_)
GrowthFactor(i) == IF i = 0 THEN Dec(1, 0) ELSE Dec(102 * GrowthFactor(i - 1).c,
                                                      GrowthFactor(i - 1).e - 2)

\* the instructions of the list whose instruction_type is type
InstructionsOfType(ixs, type) ==
    {k \in 1..Len(ixs) : ixs[k].instruction_type = type}

\* the list has one borrow_flash_loan instruction first, one swap per hop of
\* the route on the venue of the hop, and one repay_flash_loan instruction
\* last, of borrow_amount * 1.0001
BorrowSwapsRepay(ixs, route, borrow_amount) ==
    /\ Len(ixs) = Len(route) + 1
    /\ ixs[1].instruction_type = "borrow_flash_loan"
    /\ ixs[1].amount = borrow_amount
    /\ \A i \in 0..(Len(route) - 2) :
          /\ ixs[2 + i].instruction_type = "swap"
          /\ ixs[2 + i].program_id = DexProgramId(route[i + 1])
    /\ ixs[Len(ixs)].instruction_type = "repay_flash_loan"
    /\ ixs[Len(ixs)].amount = DMul(borrow_amount, Dec(10001, -4))
    /\ InstructionsOfType(ixs, "borrow_flash_loan") = {1}
    /\ InstructionsOfType(ixs, "repay_flash_loan") = {Len(ixs)}
    /\ InstructionsOfType(ixs, "swap") = 2..(Len(ixs) - 1)

\* C30 as stated: for a route of n >= 1 elements the list handed to
\* _build_and_send_transaction has n + 1 instructions, the borrow first, then
\* n - 1 swaps in route order whose i-th amount_in is borrow_amount * 1.02^i,
\* then the repayment of borrow_amount * 1.0001, borrow and repayment once
\* each.
C30_BorrowSwapsOfPowersRepay ==
    (tx_pc = "returned" /\ Len(tx_route) >= 1) =>
        /\ BorrowSwapsRepay(sent_instructions, tx_route, tx_borrow_amount)
        /\ \A i \in 0..(Len(tx_route) - 2) :
              sent_instructions[2 + i].amount_in =
                  DMul(tx_borrow_amount, GrowthFactor(i))

\* C30, amended: the same list, the amount_in of the first swap being
\* borrow_amount and that of every later swap the amount_in of the swap
\* before it times 1.02, rounded to the precision of the context at each
\* multiplication; no instruction exists before the borrow instruction and
\* none is created after the repayment instruction.
C30_BorrowSwapsOfRepeatedProductsRepay ==
    /\ (tx_pc = "returned" /\ Len(tx_route) >= 1) =>
          /\ BorrowSwapsRepay(sent_instructions, tx_route, tx_borrow_amount)
          /\ Len(tx_route) >= 2 => sent_instructions[2].amount_in = tx_borrow_amount
          /\ \A i \in 1..(Len(tx_route) - 2) :
                sent_instructions[2 + i].amount_in =
                    DMul(sent_instructions[1 + i].amount_in, Dec(102, -2))
    /\ borrow_ix = <<>> => swap_instructions = <<>> /\ repay_ix = <<>>
    /\ repay_ix # <<>> =>
          Len(swap_instructions) = (IF tx_route = <<>> THEN 0 ELSE Len(tx_route) - 1)

\* C30 witness: a route of four elements on three venues was sent, and the
\* third swap takes an amount that differs from borrow_amount * 1.02^2
C30_Witness ==
    /\ tx_pc = "returned"
    /\ Len(tx_route) = 4
    /\ tx_route[1] # tx_route[2]
    /\ tx_route[2] # tx_route[3]
    /\ sent_instructions[4].amount_in # DMul(tx_borrow_amount, GrowthFactor(2))

(***************************************************************************)
(* SpecStart: ArbBot.start, its loop of run_cycle and sleep, and stop()    *)
(* called at any moment                                                    *)
(***************************************************************************)

\* most calls of run_cycle in a run
MaxCycles == 3

\* the mappings a cycle may fetch: none, one or two quotes of the first symbol
StartMarketData ==
    {<<>>}
    \cup {AddQuote(<<>>, PriceData(TriSymbols[1], q.price, q.liquidity,
                                   QuoteSources[1]), 0) : q \in ScanQuotes}
    \cup {AddQuote(AddQuote(<<>>, PriceData(TriSymbols[1], q.price, q.liquidity,
                                            QuoteSources[1]), 0),
                   PriceData(TriSymbols[1], r.price, r.liquidity, QuoteSources[2]),
                   1) : q \in ScanQuotes, r \in ScanQuotes}

\* an exception that leaves run_cycle ends start
RunCycleReraises(outcome) == IF outcome = "error" THEN "raised" ELSE "sleep"

\* run_cycle: except Exception logs and returns, so start goes on to
\* asyncio.sleep(5) however the cycle ended
RunCycleCatches(outcome) == "sleep"

StartInit ==
    /\ start_pc = "not_started"
    /\ running = FALSE
    /\ stopped = FALSE
    /\ cycles_begun = 0
    /\ cycle_opportunities = <<>>
    /\ cycle_results = <<>>

\* start(): self.running = True
StartCall ==
    /\ start_pc = "not_started"
    /\ running' = TRUE
    /\ stopped' = FALSE
    /\ start_pc' = "initialize"
    /\ UNCHANGED <<cycles_begun, cycle_opportunities, cycle_results>>
    /\ UNCHANGED notStartVars

\* await self.initialize()
StartInitialize ==
    /\ start_pc = "initialize"
    /\ start_pc' = "loop"
    /\ UNCHANGED <<running, stopped, cycles_begun, cycle_opportunities, cycle_results>>
    /\ UNCHANGED notStartVars

\* while self.running: the next run_cycle is called, or start returns
StartLoopTest ==
    /\ start_pc = "loop"
    /\ running => cycles_begun < MaxCycles
    /\ start_pc' = (IF running THEN "scan" ELSE "returned")
    /\ cycles_begun' = (IF running THEN cycles_begun + 1 ELSE cycles_begun)
    /\ UNCHANGED <<running, stopped, cycle_opportunities, cycle_results>>
    /\ UNCHANGED notStartVars

\* run_cycle up to the choice of the best opportunity, on the mapping fetched
StartScan ==
    /\ start_pc = "scan"
    /\ \E md \in StartMarketData, order \in IterationOrders(Tokens) :
         LET result == FindProfitableRoutes(md, order, <<>>)
         IN  /\ cycle_opportunities' =
                   (IF AfterScan(result) = "execute"
                    THEN Opportunities(result.routes) ELSE <<>>)
             /\ cycle_results' =
                   (IF AfterScan(result) = "execute" THEN cycle_results
                    ELSE Append(cycle_results, AfterScan(result)))
             /\ start_pc' =
                   (IF AfterScan(result) = "execute" THEN "execute"
                    ELSE RunCycleCatches(AfterScan(result)))
    /\ UNCHANGED <<running, stopped, cycles_begun>>
    /\ UNCHANGED notStartVars

\* await self.execute_arbitrage(best_opportunity): True or False, which
\* run_cycle does not look at
StartExecute ==
    /\ start_pc = "execute"
    /\ cycle_opportunities' = <<>>
    /\ cycle_results' = Append(cycle_results, "executed")
    /\ start_pc' = RunCycleCatches("executed")
    /\ UNCHANGED <<running, stopped, cycles_begun>>
    /\ UNCHANGED notStartVars

\* await asyncio.sleep(5)
StartSleep ==
    /\ start_pc = "sleep"
    /\ start_pc' = "loop"
    /\ UNCHANGED <<running, stopped, cycles_begun, cycle_opportunities, cycle_results>>
    /\ UNCHANGED notStartVars

\* stop(): self.running = False, called by whoever holds the bot, at any
\* moment at which start is suspended
Stop ==
    /\ running' = FALSE
    /\ stopped' = (start_pc # "not_started")
    /\ UNCHANGED <<start_pc, cycles_begun, cycle_opportunities, cycle_results>>
    /\ UNCHANGED notStartVars

StartNext ==
    StartCall \/ StartInitialize \/ StartLoopTest \/ StartScan \/ StartExecute
        \/ StartSleep \/ Stop

SpecStartInit ==
    StartInit /\ RankIdle /\ PathsIdle /\ SwapIdle /\ TriIdle /\ QuoteIdle
        /\ FetchIdle /\ ScanIdle /\ TxIdle

SpecStart == SpecStartInit /\ [][StartNext]_vars

\* the event loop resumes start whenever what it awaits is over: initialize
\* only builds objects, the fetches of a scan time out after ten seconds, the
\* transaction and the pause are sleeps; stop() is under no obligation
SpecStartFair ==
    /\ SpecStart
    /\ WF_vars(StartInitialize)
    /\ WF_vars(StartLoopTest)
    /\ WF_vars(StartScan)
    /\ WF_vars(StartExecute)
    /\ WF_vars(StartSleep)

\* C29: in start, a cycle that ended with an exception of the scan or of the
\* execution is followed by the sleep and the test of running like any other
\* cycle, and the test starts the next cycle when running is true; once
\* stop() has set running to false after start() set it to true, no cycle
\* begins any more, and start() returns once the current cycle and its sleep
\* are over.
C29_LoopSurvivesExceptionsAndStops ==
    /\ [][/\ (start_pc \in {"scan", "execute"} /\ start_pc' \notin {"scan", "execute"})
              => start_pc' = "sleep"
          /\ (start_pc = "sleep" /\ start_pc' # "sleep") => start_pc' = "loop"
          /\ (start_pc = "loop" /\ start_pc' # "loop")
              => IF running
                 THEN start_pc' = "scan" /\ cycles_begun' = cycles_begun + 1
                 ELSE start_pc' = "returned" /\ cycles_begun' = cycles_begun
          /\ stopped => (~running' /\ cycles_begun' = cycles_begun)]_vars
    /\ stopped ~> (start_pc = "returned")

\* C29 witness: start has returned after a stop(), and before that a cycle
\* whose scan raised was followed by another cycle
C29_Witness ==
    /\ start_pc = "returned"
    /\ stopped
    /\ \E k \in 1..(Len(cycle_results) - 1) : cycle_results[k] = "error"

============================================================================
